---- MODULE Spec2Model ----
(***************************************************************************)
(* Switchable-storage Item service: the storage contract (BaseRepository)  *)
(* and its three backends (InMemoryRepository, SQLiteRepository,           *)
(* RedisRepository), the backend selector get_repository and the API       *)
(* handlers that call it.                                                  *)
(*                                                                         *)
(* Data abstraction.  A str is a tuple of one-character strings, so that   *)
(* lower(), `in` and LIKE are computed character by character.  A float    *)
(* price is an integer (prices are only compared and copied).  Python's    *)
(* None is a sentinel of the type of the value it stands in for.           *)
(***************************************************************************)
EXTENDS FiniteSets, Integers, Sequences, TLC

\* ------------------------------------------------------------------ bounds
\* Most ids one store hands out (caps the id counters).
MaxCreates == 2
\* Concurrent callers sharing the one key-value client.
NumCallers == 2
\* Most times an application is started again in one process.
MaxRestarts == 1

\* -------------------------------------------------------------- sentinels
\* Optional[Item]: the not-found result of get_item / update_item.
None == [none |-> TRUE]
\* Optional[str] description: None.
NoneStr == <<"None">>
\* Optional[str] name_filter: None.
NoneFilter == <<"None">>
\* Optional[float] min_price: None.
NonePrice == -1

\* ------------------------------------------------------- schemas.py values
Names == { <<"A", "b", "c">>, <<"x", "b", "c">> }
\* Strings are sequences of characters.
Descriptions == { <<"d">> }
Prices == {1, 2}
\* float('inf'): a float, greater than 0 and than every other price.
Infinity == 99

\* ItemCreate: name and price are required, so they are always in
\* model_fields_set; description is in it only when the caller passed it.
\* price: float = Field(..., gt=0) takes every float above 0, float('inf')
\* among them.
ItemCreate ==
    { d \in [name : Names, description : Descriptions \cup {NoneStr},
             price : Prices \cup {Infinity}, fields_set : SUBSET {"description"}] :
        ("description" \notin d.fields_set) => d.description = NoneStr }

\* The drafts sent to create_item, which reads the fields and not which of
\* them were set: both names, with and without a description, at a finite
\* price, and one draft with the infinite price.
CreateDrafts ==
    { d \in ItemCreate :
        /\ d.description = NoneStr => d.fields_set = {}
        /\ \/ d.name = <<"A", "b", "c">> /\ d.price = 1
           \/ d.name = <<"x", "b", "c">> /\ d.price = 2
           \/ d.name = <<"x", "b", "c">> /\ d.price = Infinity
                 /\ d.description = NoneStr }

\* The drafts sent to update_item: each way of passing the description (not
\* passed, passed as text, passed as None), with a record that differs from a
\* created one in its name, its price or both, and one draft with the
\* infinite price.
UpdateDrafts ==
    { d \in ItemCreate :
        \/ d.name = <<"A", "b", "c">> /\ d.price = 2
              /\ (d.fields_set = {} \/ d.description # NoneStr)
        \/ d.name = <<"x", "b", "c">> /\ d.price = 1
              /\ d.description = NoneStr /\ d.fields_set = {"description"}
        \/ d.name = <<"x", "b", "c">> /\ d.price = Infinity
              /\ d.description = NoneStr /\ d.fields_set = {"description"} }

\* A draft slot that holds no draft (operations that take none).
NoDraft == [name |-> <<>>, description |-> NoneStr, price |-> 0, fields_set |-> {}]

\* The drafts the concurrent callers of the key-value backend use: creates
\* with and without a description, updates that leave the description unset.
KVCreateDrafts ==
    { d \in ItemCreate :
        /\ d.price = 1
        /\ \/ d.name = <<"A", "b", "c">> /\ d.fields_set = {}
           \/ d.name = <<"x", "b", "c">> /\ d.description = <<"d">> }
KVUpdateDrafts ==
    { d \in ItemCreate : d.name = <<"x", "b", "c">> /\ d.price = 1 /\ d.fields_set = {} }
\* The updates two concurrent callers send to one id: one that leaves the
\* description unset and one that sets it.
KVConcurrentUpdateDrafts ==
    KVUpdateDrafts \cup { d \in KVCreateDrafts : "description" \in d.fields_set }

\* Field(min_length=3, max_length=50), Field(None, max_length=200).
name_min_length == 3
name_max_length == 50
description_max_length == 200

\* Whether pydantic accepts a request body as an ItemCreate: the constraints
\* of name, description (when given and not null) and price (gt=0).
ItemCreate_validate(body) ==
    /\ Len(body.name) >= name_min_length
    /\ Len(body.name) <= name_max_length
    /\ body.description = NoneStr \/ Len(body.description) <= description_max_length
    /\ body.price > 0

\* n times the character c.
Repeat(c, n) == [i \in 1..n |-> c]

\* Request bodies that break one constraint each: a name of 2 and of 51
\* characters, a description of 201, a price of 0.
InvalidBodies ==
    { [name |-> <<"x", "b">>, description |-> NoneStr, price |-> 1, fields_set |-> {}],
      [name |-> Repeat("x", name_max_length + 1), description |-> NoneStr, price |-> 1,
       fields_set |-> {}],
      [name |-> <<"x", "b", "c">>, description |-> Repeat("d", description_max_length + 1),
       price |-> 1, fields_set |-> {"description"}],
      [name |-> <<"x", "b", "c">>, description |-> NoneStr, price |-> 0, fields_set |-> {}] }

\* A body whose price is the JSON number Infinity (the json module parses it,
\* and 1e999 too, to float('inf')), which gt=0 accepts.
InfinityBodies ==
    { d \in ItemCreate :
        d.name = <<"A", "b", "c">> /\ d.price = Infinity /\ d.fields_set = {} }

\* The bodies POST and PUT requests carry: accepted ones with and without a
\* description, one with an infinite price, and the rejected ones.
Bodies == KVCreateDrafts \cup KVUpdateDrafts \cup InfinityBodies \cup InvalidBodies

\* The bodies sent with PUT: one that leaves the description unset, the one
\* with an infinite price, and the rejected one with a price of 0.
UpdateBodies ==
    KVUpdateDrafts \cup InfinityBodies \cup { d \in InvalidBodies : d.price = 0 }

ItemIds == 1..(MaxCreates + 1)

NameFilters == { NoneFilter, <<>>, <<"a", "B">>, <<"_">> }
MinPrices == { NonePrice, 0, 2 }

\* Item(id=..., **item_create.model_dump()): model_dump() gives every field,
\* set or defaulted.
Item(id, item_create) ==
    [id |-> id, name |-> item_create.name,
     description |-> item_create.description, price |-> item_create.price]

\* item_update.model_dump(exclude_unset=True): the fields explicitly set.
model_dump_exclude_unset(item_update) ==
    {"name", "price"} \cup item_update.fields_set

\* existing.model_copy(update=updated_data): the listed fields are replaced,
\* the others (id among them) are copied.
model_copy(existing, item_update, updated_fields) ==
    [id |-> existing.id,
     name |-> IF "name" \in updated_fields THEN item_update.name ELSE existing.name,
     description |-> IF "description" \in updated_fields
                     THEN item_update.description ELSE existing.description,
     price |-> IF "price" \in updated_fields THEN item_update.price ELSE existing.price]

\* ------------------------------------------------------- string helpers
\* str.lower() on one character of the alphabet used here.
LowerChar(c) == IF c = "A" THEN "a" ELSE IF c = "B" THEN "b" ELSE c

lower(s) == [i \in 1..Len(s) |-> LowerChar(s[i])]

\* Python's `sub in s` on strings.
Contains(sub, s) ==
    \E i \in 0..(Len(s) - Len(sub)) : SubSeq(s, i + 1, i + Len(sub)) = sub

\* Python truthiness of Optional[str] / Optional[float].
TruthyStr(s) == s # NoneFilter /\ s # <<>>
TruthyNum(x) == x # NonePrice /\ x # 0

\* The filter with the two tests chained by else: a min_price that is supplied,
\* zero included, is tested and the name is not.
MatchesFilters_price_else_name(item, name_filter, min_price) ==
    IF min_price # NonePrice
    THEN item.price >= min_price
    ELSE ~(TruthyStr(name_filter) /\ ~Contains(lower(name_filter), lower(item.name)))

\* The filter both application-side backends apply to one item.
MatchesFilters(item, name_filter, min_price) ==
    LET match_name == ~(TruthyStr(name_filter)
                        /\ ~Contains(lower(name_filter), lower(item.name)))
        match_price == ~(TruthyNum(min_price) /\ item.price < min_price)
    IN match_name /\ match_price

\* Increasing enumeration of a finite set of integers.
RECURSIVE Ascending(_)
Ascending(S) ==
    IF S = {} THEN <<>>
    ELSE LET m == CHOOSE x \in S : \A y \in S : x <= y
         IN <<m>> \o Ascending(S \ {m})

\* All enumerations of a finite set, each element once.
RECURSIVE Orderings(_)
Orderings(S) ==
    IF S = {} THEN { <<>> }
    ELSE UNION { { <<x>> \o s : s \in Orderings(S \ {x}) } : x \in S }

\* A mapping with no key (an empty dict, table or keyspace).
EmptyMap == [k \in {} |-> None]

\* m[k] = v on a mapping.
Put(m, k, v) == [x \in DOMAIN m \cup {k} |-> IF x = k THEN v ELSE m[x]]

\* del m[k] on a mapping.
Remove(m, k) == [x \in DOMAIN m \ {k} |-> m[x]]

\* ============================================================ in-memory
\* InMemoryRepository.__init__: an empty dict and next_id = 1.
InMemoryRepository == [items |-> EmptyMap, next_id |-> 1]

IM_get_item(self, item_id) ==
    IF item_id \in DOMAIN self.items THEN self.items[item_id] ELSE None

\* self.items.values(): a dict iterates in insertion order.  Keys are only
\* ever inserted by create_item, with increasing next_id, and an update
\* assigns to an existing key, so insertion order is increasing id order.
dict_values(its) ==
    LET ks == Ascending(DOMAIN its) IN [i \in 1..Len(ks) |-> its[ks[i]]]

IM_list_items(self, name_filter, min_price) ==
    LET keep(item) == MatchesFilters(item, name_filter, min_price)
    IN SelectSeq(dict_values(self.items), keep)

\* create_item taking the id from the number of items held.
IM_create_item_len_id(self, item_create) ==
    LET item == Item(Cardinality(DOMAIN self.items) + 1, item_create)
    IN [self |-> [items |-> Put(self.items, item.id, item),
                  next_id |-> self.next_id + 1],
        ret |-> item]

IM_create_item(self, item_create) ==
    LET item == Item(self.next_id, item_create)
    IN [self |-> [items |-> Put(self.items, self.next_id, item),
                  next_id |-> self.next_id + 1],
        ret |-> item]

IM_update_item(self, item_id, item_update) ==
    IF item_id \in DOMAIN self.items
    THEN LET current_item == self.items[item_id]
             updated_data == model_dump_exclude_unset(item_update)
             updated_item == model_copy(current_item, item_update, updated_data)
         IN [self |-> [self EXCEPT !.items = Put(self.items, item_id, updated_item)],
             ret |-> updated_item]
    ELSE [self |-> self, ret |-> None]

IM_delete_item(self, item_id) ==
    IF item_id \in DOMAIN self.items
    THEN [self |-> [self EXCEPT !.items = Remove(self.items, item_id)], ret |-> TRUE]
    ELSE [self |-> self, ret |-> FALSE]

\* =============================================================== SQLite
\* The items table after init_db on a new file: no row; AUTOINCREMENT keeps
\* the largest rowid ever inserted in sqlite_sequence, and the next INSERT
\* takes that plus one.  A row is kept under its primary key as
\* <<name, description, price>>.
EmptyDatabase == [rows |-> EmptyMap, sqlite_sequence |-> 0]

\* Item(id=row[0], name=row[1], description=row[2], price=row[3]); a NULL
\* description comes back as None.
ItemOfRow(id, row) ==
    [id |-> id, name |-> row[1], description |-> row[2], price |-> row[3]]

\* SQLite's LOWER(): ASCII letters only (every letter of the alphabet here).
SqlLower(s) == [i \in 1..Len(s) |-> LowerChar(s[i])]

\* text LIKE pattern: % is any run of characters, _ any one character, and
\* every other character matches itself, ASCII letters case-insensitively.
RECURSIVE Like(_, _)
Like(text, pattern) ==
    IF pattern = <<>> THEN text = <<>>
    ELSE IF Head(pattern) = "%"
         THEN Like(text, Tail(pattern)) \/ (text # <<>> /\ Like(Tail(text), pattern))
    ELSE IF text = <<>> THEN FALSE
    ELSE /\ \/ Head(pattern) = "_"
            \/ LowerChar(Head(pattern)) = LowerChar(Head(text))
         /\ Like(Tail(text), Tail(pattern))

SQL_get_item(db, item_id) ==
    IF item_id \in DOMAIN db.rows THEN ItemOfRow(item_id, db.rows[item_id]) ELSE None

\* list_items with ORDER BY id DESC.
SQL_list_items_descending(db, name_filter, min_price) ==
    LET where(id) ==
            /\ TruthyStr(name_filter) =>
                   Like(SqlLower(db.rows[id][1]),
                        SqlLower(<<"%">> \o name_filter \o <<"%">>))
            /\ TruthyNum(min_price) => db.rows[id][3] >= min_price
        asc == SelectSeq(Ascending(DOMAIN db.rows), where)
        ids == [i \in 1..Len(asc) |-> asc[Len(asc) + 1 - i]]
    IN [i \in 1..Len(ids) |-> ItemOfRow(ids[i], db.rows[ids[i]])]

\* WHERE 1=1 [AND LOWER(name) LIKE LOWER(?)] [AND price >= ?] ORDER BY id,
\* the name parameter being f"%{name_filter}%".
SQL_list_items(db, name_filter, min_price) ==
    LET where(id) ==
            /\ TruthyStr(name_filter) =>
                   Like(SqlLower(db.rows[id][1]),
                        SqlLower(<<"%">> \o name_filter \o <<"%">>))
            /\ TruthyNum(min_price) => db.rows[id][3] >= min_price
        ids == SelectSeq(Ascending(DOMAIN db.rows), where)
    IN [i \in 1..Len(ids) |-> ItemOfRow(ids[i], db.rows[ids[i]])]

\* The table declared without AUTOINCREMENT: the next rowid is one more than
\* the largest rowid now in the table.
SQL_create_item_max_rowid(db, item_create) ==
    LET lastrowid == IF DOMAIN db.rows = {} THEN 1
                     ELSE 1 + CHOOSE m \in DOMAIN db.rows : \A k \in DOMAIN db.rows : k <= m
        row == <<item_create.name, item_create.description, item_create.price>>
    IN [self |-> [rows |-> Put(db.rows, lastrowid, row), sqlite_sequence |-> lastrowid],
        ret |-> Item(lastrowid, item_create)]

\* INSERT ... ; commit; Item(id=cursor.lastrowid, **item_create.model_dump())
SQL_create_item(db, item_create) ==
    LET lastrowid == db.sqlite_sequence + 1
        row == <<item_create.name, item_create.description, item_create.price>>
    IN [self |-> [rows |-> Put(db.rows, lastrowid, row), sqlite_sequence |-> lastrowid],
        ret |-> Item(lastrowid, item_create)]

\* The statement as INSERT OR REPLACE INTO items (id, ...): a row is written
\* whether or not the id was there.
SQL_update_statement_upsert(db, item_id, item_update) ==
    [self |-> [db EXCEPT !.rows = Put(db.rows, item_id,
                  <<item_update.name, item_update.description, item_update.price>>)],
     rowcount |-> 1]

\* UPDATE items SET name = ?, description = ?, price = ? WHERE id = ?: all
\* three columns are written from the draft, whichever fields it set.
SQL_update_statement(db, item_id, item_update) ==
    IF item_id \in DOMAIN db.rows
    THEN [self |-> [db EXCEPT !.rows = Put(db.rows, item_id,
                        <<item_update.name, item_update.description, item_update.price>>)],
          rowcount |-> 1]
    ELSE [self |-> db, rowcount |-> 0]

\* update_item: the UPDATE, commit, and when a row was affected the read-back
\* through get_item.
SQL_update_item(db, item_id, item_update) ==
    LET upd == SQL_update_statement(db, item_id, item_update)
    IN IF upd.rowcount > 0
       THEN [self |-> upd.self, ret |-> SQL_get_item(upd.self, item_id)]
       ELSE [self |-> upd.self, ret |-> None]

\* DELETE FROM items WHERE id = ?; return cursor.rowcount > 0
SQL_delete_item(db, item_id) ==
    IF item_id \in DOMAIN db.rows
    THEN [self |-> [db EXCEPT !.rows = Remove(db.rows, item_id)], ret |-> TRUE]
    ELSE [self |-> db, ret |-> FALSE]

\* ================================================================ Redis
\* RedisRepository.__init__
key_prefix == "item:"
next_id_key == <<"next_item_id">>

\* f"{self.key_prefix}{item_id}": the prefix followed by the decimal digits of
\* the id, kept as the pair (prefix, number); distinct ids give distinct keys
\* and no item key equals next_id_key.
KeyOf(item_id) == <<key_prefix, item_id>>

\* The glob f"{self.key_prefix}*" of scan_iter: the keys that start with the
\* prefix.  "next_item_id" does not.
MatchesPrefix(key) == key[1] = key_prefix

\* What GET / MGET give for a missing key (nil, None in the client): falsy.
RedisNil == <<>>

\* An empty keyspace.
EmptyStore == EmptyMap

\* INCR key: one atomic command; a missing key counts as 0.
Redis_incr(store, key) ==
    LET value == IF key \in DOMAIN store THEN store[key] + 1 ELSE 1
    IN [store |-> Put(store, key, value), ret |-> value]

Redis_get(store, key) == IF key \in DOMAIN store THEN store[key] ELSE RedisNil

Redis_set(store, key, value) == Put(store, key, value)

\* DEL key: the number of keys removed.
Redis_delete(store, key) ==
    IF key \in DOMAIN store
    THEN [store |-> Remove(store, key), ret |-> 1]
    ELSE [store |-> store, ret |-> 0]

\* The keys SCAN MATCH item:* enumerates on a keyspace nobody changes.
Redis_scan(store) == { k \in DOMAIN store : MatchesPrefix(k) }

\* MGET: one value, or nil, per key asked for, in the order asked.
Redis_mget(store, keys) == [i \in 1..Len(keys) |-> Redis_get(store, keys[i])]

\* pydantic's ValidationError, raised by model_validate_json.
ValidationError == [validation_error |-> TRUE]

\* item.model_dump_json(): the JSON object, a list of (key, value) members
\* in field order (the inherited fields, then id).  JSON has no number for a
\* float that is not finite: it is written as null (NonePrice in a price).
model_dump_json(item) ==
    << <<"name", item.name>>, <<"description", item.description>>,
       <<"price", IF item.price = Infinity THEN NonePrice ELSE item.price>>,
       <<"id", item.id>> >>

\* Item.model_validate_json(data): each field is looked up by its key; null
\* is no float, so a null price fails validation.
model_validate_json(data) ==
    LET member(k) == data[CHOOSE i \in 1..Len(data) : data[i][1] = k][2]
        price == member("price")
    IN IF price = NonePrice THEN ValidationError
       ELSE [id |-> member("id"), name |-> member("name"),
             description |-> member("description"), price |-> price]

\* get_item, from the value GET returned.
KV_get_result(item_data) ==
    IF item_data # RedisNil THEN model_validate_json(item_data) ELSE None

KV_get_item(store, item_id) == KV_get_result(Redis_get(store, KeyOf(item_id)))

\* list_items, from the values MGET returned: nil values are skipped, the rest
\* deserialized and filtered.  When a value fails validation the call raises:
\* the result is the error in place of the items.
KV_list_result(items_data, name_filter, min_price) ==
    LET present(item_data) == item_data # RedisNil
        found == SelectSeq(items_data, present)
        decoded == [i \in 1..Len(found) |-> model_validate_json(found[i])]
        keep(item) == MatchesFilters(item, name_filter, min_price)
    IN IF \E i \in 1..Len(decoded) : decoded[i] = ValidationError
       THEN <<ValidationError>>
       ELSE SelectSeq(decoded, keep)

\* list_items that reads only the first key scan_iter gives.
KV_list_items_first_key(store, all_keys, name_filter, min_price) ==
    IF all_keys = <<>> THEN <<>>
    ELSE KV_list_result(Redis_mget(store, <<all_keys[1]>>), name_filter, min_price)

\* list_items on a keyspace nobody else changes; all_keys is what scan_iter
\* gave, in the order it gave it.
KV_list_items(store, all_keys, name_filter, min_price) ==
    IF all_keys = <<>> THEN <<>>
    ELSE KV_list_result(Redis_mget(store, all_keys), name_filter, min_price)

\* _get_next_id as a read of the counter whose incremented value is not
\* written back before the caller goes on (fetch, then write back later).
KV_get_next_id_unwritten(store) ==
    [store |-> store,
     ret |-> IF next_id_key \in DOMAIN store THEN store[next_id_key] + 1 ELSE 1]

\* _get_next_id
KV_get_next_id(store) == Redis_incr(store, next_id_key)

\* create_item, second half: the SET of the new record.
KV_create_write(store, item_id, item_create) ==
    LET item == Item(item_id, item_create)
    IN [self |-> Redis_set(store, KeyOf(item_id), model_dump_json(item)), ret |-> item]

KV_create_item(store, item_create) ==
    LET next == KV_get_next_id(store)
    IN KV_create_write(next.store, next.ret, item_create)

\* update_item that stores the draft under the id in place of the merged copy.
KV_update_write_draft_only(store, item_id, existing_item, item_update) ==
    IF existing_item # None
    THEN LET updated_item == Item(item_id, item_update)
         IN [self |-> Redis_set(store, KeyOf(item_id), model_dump_json(updated_item)),
             ret |-> updated_item]
    ELSE [self |-> store, ret |-> None]

\* update_item, second half: merge onto the item read before, SET the result.
KV_update_write(store, item_id, existing_item, item_update) ==
    IF existing_item = ValidationError
    THEN [self |-> store, ret |-> ValidationError]
    ELSE IF existing_item # None
    THEN LET updated_data == model_dump_exclude_unset(item_update)
             updated_item == model_copy(existing_item, item_update, updated_data)
         IN [self |-> Redis_set(store, KeyOf(item_id), model_dump_json(updated_item)),
             ret |-> updated_item]
    ELSE [self |-> store, ret |-> None]

KV_update_item(store, item_id, item_update) ==
    KV_update_write(store, item_id, KV_get_item(store, item_id), item_update)

\* delete_item returning `result >= 0`.
KV_delete_item_ge(store, item_id) ==
    LET result == Redis_delete(store, KeyOf(item_id))
    IN [self |-> result.store, ret |-> result.ret >= 0]

KV_delete_item(store, item_id) ==
    LET result == Redis_delete(store, KeyOf(item_id))
    IN [self |-> result.store, ret |-> result.ret > 0]

\* ================================================================ state
VARIABLES
    storage_type,     \* settings.STORAGE_TYPE
    items, next_id,   \* the InMemoryRepository instance in use
    rows, sqlite_sequence,  \* the items table of the SQLite file
    redis,            \* the Redis keyspace behind the shared client
    calls,            \* the calls in flight on the shared Redis client
    last,             \* the last completed call: its arguments and its result
    issued,           \* history: the ids create has returned
    returned,         \* history: per id, the Item create or the latest update
                      \* returned, until a delete of the id succeeds
    app               \* the application process: where its lifespan stands,
                      \* dependencies._redis_client and the clients made

vars == <<storage_type, items, next_id, rows, sqlite_sequence, redis, calls,
          last, issued, returned, app>>

StorageType == {"in_memory", "sqlite", "redis"}

Callers == 1..NumCallers

\* A call record; the slots an operation does not use keep these values.
NoCall ==
    [op |-> "none", id |-> 0, draft |-> NoDraft, name_filter |-> NoneFilter,
     min_price |-> NonePrice, item |-> None, ok |-> FALSE, list |-> <<>>,
     status |-> 0, fault |-> "none", raised |-> FALSE, connection |-> "none",
     opened |-> 0]

\* A caller with no call in flight.
\* _redis_client: Optional[Redis] = None.  A client is named by the order
\* Redis.from_url made it in: 1, 2, ...
NoClient == 0

\* A request that holds no repository instance.
NoRepository == [kind |-> "none", redis_client |-> NoClient]

Idle ==
    [pc |-> "idle", id |-> 0, draft |-> NoDraft, existing |-> None,
     repository |-> NoRepository, connections |-> 0, all_keys |-> <<>>,
     response |-> NoCall]

mem == [items |-> items, next_id |-> next_id]
db == [rows |-> rows, sqlite_sequence |-> sqlite_sequence]

\* The process before its lifespan is entered: no client made, none closed,
\* init_db not run, no repository instance handed out.
NotStarted ==
    [pc |-> "enter", redis_client |-> NoClient, from_url |-> 0, closed |-> <<>>,
     schema |-> FALSE, handed |-> {}, restarts |-> 0]

StoresInit ==
    /\ items = InMemoryRepository.items
    /\ next_id = InMemoryRepository.next_id
    /\ rows = EmptyDatabase.rows
    /\ sqlite_sequence = EmptyDatabase.sqlite_sequence
    /\ redis = EmptyStore
    /\ calls = [p \in Callers |-> Idle]
    /\ last = NoCall
    /\ issued = {}
    /\ returned = EmptyMap

\* The id counter of the selected backend: the ids given so far (next_id - 1,
\* AUTOINCREMENT's sequence, the Redis counter key).
IdsGiven ==
    CASE storage_type = "in_memory" -> next_id - 1
      [] storage_type = "sqlite" -> sqlite_sequence
      [] storage_type = "redis" ->
            IF next_id_key \in DOMAIN redis THEN redis[next_id_key] ELSE 0

\* The records the selected backend holds, as a mapping id -> Item.
StoredItems ==
    CASE storage_type = "in_memory" -> items
      [] storage_type = "sqlite" -> [id \in DOMAIN rows |-> ItemOfRow(id, rows[id])]
      [] storage_type = "redis" ->
            [id \in { i \in ItemIds : KeyOf(i) \in DOMAIN redis } |->
                model_validate_json(redis[KeyOf(id)])]

\* What get_item(item_id) of the selected backend gives in this state.
GetNow(item_id) ==
    CASE storage_type = "in_memory" -> IM_get_item(mem, item_id)
      [] storage_type = "sqlite" -> SQL_get_item(db, item_id)
      [] storage_type = "redis" -> KV_get_item(redis, item_id)

\* What delete_item(item_id) of the selected backend would return in this state.
DeleteNow(item_id) ==
    CASE storage_type = "in_memory" -> IM_delete_item(mem, item_id).ret
      [] storage_type = "sqlite" -> SQL_delete_item(db, item_id).ret
      [] storage_type = "redis" -> KV_delete_item(redis, item_id).ret

\* The lists list_items of the selected backend can give in this state: one
\* list in memory and in the table, and for the key-value store one for each
\* order scan_iter may give the keys in.
ListNow(name_filter, min_price) ==
    CASE storage_type = "in_memory" -> {IM_list_items(mem, name_filter, min_price)}
      [] storage_type = "sqlite" -> {SQL_list_items(db, name_filter, min_price)}
      [] storage_type = "redis" ->
            { KV_list_items(redis, all_keys, name_filter, min_price) :
                all_keys \in Orderings(Redis_scan(redis)) }

\* A call completes: it becomes the last call, and the history follows it.
Completed(call) ==
    /\ last' = call
    /\ issued' = IF call.op = "create" /\ ~call.raised
                 THEN issued \cup {call.item.id} ELSE issued
    /\ returned' =
          CASE call.op = "create" /\ ~call.raised ->
                  Put(returned, call.item.id, call.item)
            [] call.op = "update" /\ call.item \notin {None, ValidationError} ->
                  Put(returned, call.id, call.item)
            [] call.op = "delete" /\ call.ok -> Remove(returned, call.id)
            [] OTHER -> returned

\* The three stores.
AppStores == <<items, next_id, rows, sqlite_sequence, redis>>

SetMem(r) == items' = r.items /\ next_id' = r.next_id
SetDb(r) == rows' = r.rows /\ sqlite_sequence' = r.sqlite_sequence
SetStore(r) == redis' = r

\* ------------------------------------------------ one backend instance
\* The contract called on one backend instance, one call at a time (the
\* repository tests' use of it).
Init ==
    /\ storage_type \in StorageType
    /\ StoresInit
    /\ app = NotStarted

InMemory_create_item(item_create) ==
    /\ storage_type = "in_memory"
    /\ next_id <= MaxCreates
    /\ LET r == IM_create_item(mem, item_create)
       IN /\ SetMem(r.self)
          /\ Completed([NoCall EXCEPT !.op = "create", !.draft = item_create,
                                      !.id = r.ret.id, !.item = r.ret])
    /\ UNCHANGED <<app, storage_type, rows, sqlite_sequence, redis, calls>>

InMemory_get_item(item_id) ==
    /\ storage_type = "in_memory"
    /\ Completed([NoCall EXCEPT !.op = "get", !.id = item_id,
                                !.item = IM_get_item(mem, item_id)])
    /\ UNCHANGED <<app, storage_type, items, next_id, rows, sqlite_sequence, redis, calls>>

InMemory_list_items(name_filter, min_price) ==
    /\ storage_type = "in_memory"
    /\ Completed([NoCall EXCEPT !.op = "list", !.name_filter = name_filter,
                                !.min_price = min_price,
                                !.list = IM_list_items(mem, name_filter, min_price)])
    /\ UNCHANGED <<app, storage_type, items, next_id, rows, sqlite_sequence, redis, calls>>

InMemory_update_item(item_id, item_update) ==
    /\ storage_type = "in_memory"
    /\ LET r == IM_update_item(mem, item_id, item_update)
       IN /\ SetMem(r.self)
          /\ Completed([NoCall EXCEPT !.op = "update", !.id = item_id,
                                      !.draft = item_update, !.item = r.ret])
    /\ UNCHANGED <<app, storage_type, rows, sqlite_sequence, redis, calls>>

InMemory_delete_item(item_id) ==
    /\ storage_type = "in_memory"
    /\ LET r == IM_delete_item(mem, item_id)
       IN /\ SetMem(r.self)
          /\ Completed([NoCall EXCEPT !.op = "delete", !.id = item_id, !.ok = r.ret])
    /\ UNCHANGED <<app, storage_type, rows, sqlite_sequence, redis, calls>>

SQLite_create_item(item_create) ==
    /\ storage_type = "sqlite"
    /\ sqlite_sequence < MaxCreates
    /\ LET r == SQL_create_item(db, item_create)
       IN /\ SetDb(r.self)
          /\ Completed([NoCall EXCEPT !.op = "create", !.draft = item_create,
                                      !.id = r.ret.id, !.item = r.ret])
    /\ UNCHANGED <<app, storage_type, items, next_id, redis, calls>>

SQLite_get_item(item_id) ==
    /\ storage_type = "sqlite"
    /\ Completed([NoCall EXCEPT !.op = "get", !.id = item_id,
                                !.item = SQL_get_item(db, item_id)])
    /\ UNCHANGED <<app, storage_type, items, next_id, rows, sqlite_sequence, redis, calls>>

SQLite_list_items(name_filter, min_price) ==
    /\ storage_type = "sqlite"
    /\ Completed([NoCall EXCEPT !.op = "list", !.name_filter = name_filter,
                                !.min_price = min_price,
                                !.list = SQL_list_items(db, name_filter, min_price)])
    /\ UNCHANGED <<app, storage_type, items, next_id, rows, sqlite_sequence, redis, calls>>

SQLite_update_item(item_id, item_update) ==
    /\ storage_type = "sqlite"
    /\ LET r == SQL_update_item(db, item_id, item_update)
       IN /\ SetDb(r.self)
          /\ Completed([NoCall EXCEPT !.op = "update", !.id = item_id,
                                      !.draft = item_update, !.item = r.ret])
    /\ UNCHANGED <<app, storage_type, items, next_id, redis, calls>>

SQLite_delete_item(item_id) ==
    /\ storage_type = "sqlite"
    /\ LET r == SQL_delete_item(db, item_id)
       IN /\ SetDb(r.self)
          /\ Completed([NoCall EXCEPT !.op = "delete", !.id = item_id, !.ok = r.ret])
    /\ UNCHANGED <<app, storage_type, items, next_id, redis, calls>>

Redis_create_item(item_create) ==
    /\ storage_type = "redis"
    /\ IdsGiven < MaxCreates
    /\ LET r == KV_create_item(redis, item_create)
       IN /\ SetStore(r.self)
          /\ Completed([NoCall EXCEPT !.op = "create", !.draft = item_create,
                                      !.id = r.ret.id, !.item = r.ret])
    /\ UNCHANGED <<app, storage_type, items, next_id, rows, sqlite_sequence, calls>>

\* get_item returns the Item or None, or model_validate_json raises.
Redis_get_item(item_id) ==
    /\ storage_type = "redis"
    /\ LET item == KV_get_item(redis, item_id)
       IN Completed([NoCall EXCEPT !.op = "get", !.id = item_id, !.item = item,
                                   !.raised = (item = ValidationError)])
    /\ UNCHANGED <<app, storage_type, items, next_id, rows, sqlite_sequence, redis, calls>>

\* scan_iter gives the matching keys in an order of the server's choosing.
Redis_list_items(name_filter, min_price) ==
    /\ storage_type = "redis"
    /\ \E all_keys \in Orderings(Redis_scan(redis)) :
          LET result == KV_list_items(redis, all_keys, name_filter, min_price)
          IN Completed([NoCall EXCEPT !.op = "list", !.name_filter = name_filter,
                                      !.min_price = min_price, !.list = result,
                                      !.raised = (result = <<ValidationError>>)])
    /\ UNCHANGED <<app, storage_type, items, next_id, rows, sqlite_sequence, redis, calls>>

Redis_update_item(item_id, item_update) ==
    /\ storage_type = "redis"
    /\ LET r == KV_update_item(redis, item_id, item_update)
       IN /\ SetStore(r.self)
          /\ Completed([NoCall EXCEPT !.op = "update", !.id = item_id,
                                      !.draft = item_update, !.item = r.ret,
                                      !.raised = (r.ret = ValidationError)])
    /\ UNCHANGED <<app, storage_type, items, next_id, rows, sqlite_sequence, calls>>

Redis_delete_item(item_id) ==
    /\ storage_type = "redis"
    /\ LET r == KV_delete_item(redis, item_id)
       IN /\ SetStore(r.self)
          /\ Completed([NoCall EXCEPT !.op = "delete", !.id = item_id, !.ok = r.ret])
    /\ UNCHANGED <<app, storage_type, items, next_id, rows, sqlite_sequence, calls>>

Next ==
    \/ \E d \in CreateDrafts : InMemory_create_item(d)
    \/ \E i \in ItemIds : InMemory_get_item(i)
    \/ \E f \in NameFilters, p \in MinPrices : InMemory_list_items(f, p)
    \/ \E i \in ItemIds, d \in UpdateDrafts : InMemory_update_item(i, d)
    \/ \E i \in ItemIds : InMemory_delete_item(i)
    \/ \E d \in CreateDrafts : SQLite_create_item(d)
    \/ \E i \in ItemIds : SQLite_get_item(i)
    \/ \E f \in NameFilters, p \in MinPrices : SQLite_list_items(f, p)
    \/ \E i \in ItemIds, d \in UpdateDrafts : SQLite_update_item(i, d)
    \/ \E i \in ItemIds : SQLite_delete_item(i)
    \/ \E d \in CreateDrafts : Redis_create_item(d)
    \/ \E i \in ItemIds : Redis_get_item(i)
    \/ \E f \in NameFilters, p \in MinPrices : Redis_list_items(f, p)
    \/ \E i \in ItemIds, d \in UpdateDrafts : Redis_update_item(i, d)
    \/ \E i \in ItemIds : Redis_delete_item(i)

Spec == Init /\ [][Next]_vars

\* ------------------------------------- concurrent calls on one Redis client
\* Every request holds the one shared client, so calls interleave at their
\* awaits.  Each `await self.redis.<command>(...)` is two moments: the server
\* executes the command, and later the reply reaches the coroutine, which
\* goes on to its next command or returns to its caller.  Other callers'
\* commands run in between.  get_item and delete_item are one command;
\* create_item is INCR then SET, update_item is GET then SET, list_items is
\* the scan then MGET.
InitKV ==
    /\ storage_type = "redis"
    /\ StoresInit
    /\ app = NotStarted

KVUnchanged == UNCHANGED <<app, storage_type, items, next_id, rows, sqlite_sequence>>
NoCompletion == UNCHANGED <<last, issued, returned>>

\* The last command of a call has been executed; what the call will return
\* is settled, and the caller has it once the reply has arrived.
KV_awaits_return(p, call) ==
    calls' = [calls EXCEPT ![p] = [Idle EXCEPT !.pc = "return", !.id = call.id,
                                                !.draft = call.draft,
                                                !.response = call]]

\* The reply arrives and the call returns (or raises) to its caller.
KV_return(p) ==
    /\ calls[p].pc = "return"
    /\ Completed(calls[p].response)
    /\ calls' = [calls EXCEPT ![p] = Idle]
    /\ UNCHANGED redis
    /\ KVUnchanged

\* create_item: `await self._get_next_id()`, the INCR.
KV_create_incr(p, item_create) ==
    /\ calls[p].pc = "idle"
    /\ IdsGiven < MaxCreates
    /\ LET next == KV_get_next_id(redis)
       IN /\ redis' = next.store
          /\ calls' = [calls EXCEPT ![p] = [Idle EXCEPT !.pc = "create_set",
                                                        !.id = next.ret,
                                                        !.draft = item_create]]
    /\ NoCompletion
    /\ KVUnchanged

\* create_item: `await self.redis.set(...)`, the SET of the new record.
KV_create_set(p) ==
    /\ calls[p].pc = "create_set"
    /\ LET r == KV_create_write(redis, calls[p].id, calls[p].draft)
       IN /\ redis' = r.self
          /\ KV_awaits_return(p, [NoCall EXCEPT !.op = "create",
                                                !.draft = calls[p].draft,
                                                !.id = r.ret.id, !.item = r.ret])
    /\ NoCompletion
    /\ KVUnchanged

\* get_item: `await self.redis.get(...)`; the value GET read is what the
\* call returns or fails to validate.
KV_get(p, item_id) ==
    /\ calls[p].pc = "idle"
    /\ LET item == KV_get_item(redis, item_id)
       IN KV_awaits_return(p, [NoCall EXCEPT !.op = "get", !.id = item_id,
                                             !.item = item,
                                             !.raised = (item = ValidationError)])
    /\ NoCompletion
    /\ UNCHANGED redis
    /\ KVUnchanged

\* update_item: `await self.get_item(item_id)`, the GET.  With an Item read
\* the call goes on to its SET; it returns None when the key was absent, and
\* a value that does not validate raises out of get_item: no SET is sent.
KV_update_get(p, item_id, item_update) ==
    /\ calls[p].pc = "idle"
    /\ LET existing_item == KV_get_item(redis, item_id)
       IN IF existing_item \notin {None, ValidationError}
          THEN calls' = [calls EXCEPT ![p] = [Idle EXCEPT !.pc = "update_set",
                                                          !.id = item_id,
                                                          !.draft = item_update,
                                                          !.existing = existing_item]]
          ELSE KV_awaits_return(p, [NoCall EXCEPT
                                      !.op = "update", !.id = item_id,
                                      !.draft = item_update, !.item = existing_item,
                                      !.raised = (existing_item = ValidationError)])
    /\ NoCompletion
    /\ UNCHANGED redis
    /\ KVUnchanged

\* update_item taking a lock around its SET: it waits while any other caller
\* is inside an operation.
KV_update_set_waits(p) ==
    /\ calls[p].pc = "update_set"
    /\ \A q \in Callers \ {p} : calls[q].pc = "idle"
    /\ LET r == KV_update_write(redis, calls[p].id, calls[p].existing, calls[p].draft)
       IN /\ redis' = r.self
          /\ KV_awaits_return(p, [NoCall EXCEPT !.op = "update", !.id = calls[p].id,
                                                !.draft = calls[p].draft,
                                                !.item = r.ret])
    /\ NoCompletion
    /\ KVUnchanged

\* update_item: `await self.redis.set(...)`, the SET of the merged record.
KV_update_set(p) ==
    /\ calls[p].pc = "update_set"
    /\ LET r == KV_update_write(redis, calls[p].id, calls[p].existing, calls[p].draft)
       IN /\ redis' = r.self
          /\ KV_awaits_return(p, [NoCall EXCEPT !.op = "update", !.id = calls[p].id,
                                                !.draft = calls[p].draft,
                                                !.item = r.ret])
    /\ NoCompletion
    /\ KVUnchanged

\* delete_item: `await self.redis.delete(...)`, the DEL.
KV_delete(p, item_id) ==
    /\ calls[p].pc = "idle"
    /\ LET r == KV_delete_item(redis, item_id)
       IN /\ redis' = r.self
          /\ KV_awaits_return(p, [NoCall EXCEPT !.op = "delete", !.id = item_id,
                                                !.ok = r.ret])
    /\ NoCompletion
    /\ KVUnchanged

NextKV ==
    \E p \in Callers :
        \/ \E d \in KVCreateDrafts : KV_create_incr(p, d)
        \/ KV_create_set(p)
        \/ \E i \in ItemIds : KV_get(p, i)
        \/ \E i \in ItemIds, d \in KVUpdateDrafts : KV_update_get(p, i, d)
        \/ KV_update_set(p)
        \/ \E i \in ItemIds : KV_delete(p, i)
        \/ KV_return(p)

SpecKV == InitKV /\ [][NextKV]_vars

\* Concurrent callers that create and delete: the calls that give ids out
\* and the calls that free keys.
NextKVCreate ==
    \E p \in Callers :
        \/ \E d \in KVCreateDrafts : KV_create_incr(p, d)
        \/ KV_create_set(p)
        \/ \E i \in ItemIds : KV_delete(p, i)
        \/ KV_return(p)

SpecKVCreate == InitKV /\ [][NextKVCreate]_vars

\* Concurrent callers that create items and update the first of them, with
\* updates that differ in the fields they set.
NextKVUpdate ==
    \E p \in Callers :
        \/ \E d \in KVCreateDrafts : KV_create_incr(p, d)
        \/ KV_create_set(p)
        \/ \E d \in KVConcurrentUpdateDrafts : KV_update_get(p, 1, d)
        \/ KV_update_set(p)
        \/ KV_return(p)

SpecKVUpdate == InitKV /\ [][NextKVUpdate]_vars

\* Concurrent callers that also list.  list_items awaits the scan, which
\* gives the keys present then in some order; with no key it returns the
\* empty list, and otherwise it sends one MGET of the keys.
KV_list_scan(p) ==
    /\ calls[p].pc = "idle"
    /\ \E all_keys \in Orderings(Redis_scan(redis)) :
          IF all_keys = <<>>
          THEN KV_awaits_return(p, [NoCall EXCEPT !.op = "list", !.list = <<>>])
          ELSE calls' = [calls EXCEPT ![p] = [Idle EXCEPT !.pc = "list_mget",
                                                          !.all_keys = all_keys]]
    /\ NoCompletion
    /\ UNCHANGED redis
    /\ KVUnchanged

\* list_items: `await self.redis.mget(all_keys)` (all_keys is not empty
\* here); the values MGET read are what the call deserializes and returns.
KV_list_mget(p) ==
    /\ calls[p].pc = "list_mget"
    /\ \E items_data \in {Redis_mget(redis, calls[p].all_keys)} :
          \E result \in {KV_list_result(items_data, NoneFilter, NonePrice)} :
              KV_awaits_return(p, [NoCall EXCEPT
                                      !.op = "list", !.list = result,
                                      !.raised = (result = <<ValidationError>>)])
    /\ NoCompletion
    /\ UNCHANGED redis
    /\ KVUnchanged

\* The drafts of the callers that list: one of a finite and one of the
\* infinite price.
KVListDrafts ==
    KVUpdateDrafts \cup
    { d \in ItemCreate :
        d.name = <<"x", "b", "c">> /\ d.price = Infinity /\ d.fields_set = {} }

NextKVList ==
    \E p \in Callers :
        \/ \E d \in KVListDrafts : KV_create_incr(p, d)
        \/ KV_create_set(p)
        \/ \E i \in ItemIds : KV_get(p, i)
        \/ KV_list_scan(p)
        \/ KV_list_mget(p)
        \/ \E i \in ItemIds, d \in KVUpdateDrafts : KV_update_get(p, i, d)
        \/ KV_update_set(p)
        \/ \E i \in ItemIds : KV_delete(p, i)
        \/ KV_return(p)

SpecKVList == InitKV /\ [][NextKVList]_vars

\* The event loop resumes a coroutine once the reply it awaits has arrived,
\* and the server answers every command: the step after an await is taken
\* if it stays possible.  Starting a call is up to the callers.
KV_resume(p) ==
    KV_create_set(p) \/ KV_update_set(p) \/ KV_list_mget(p) \/ KV_return(p)

\* The callers contend for one record: a create makes the first record, every
\* get, update and delete is of the first id, and lists go on around them.
NextKVFair ==
    \E p \in Callers :
        \/ \E d \in KVUpdateDrafts : IdsGiven = 0 /\ KV_create_incr(p, d)
        \/ KV_create_set(p)
        \/ KV_get(p, 1)
        \/ KV_list_scan(p)
        \/ KV_list_mget(p)
        \/ \E d \in KVUpdateDrafts : KV_update_get(p, 1, d)
        \/ KV_update_set(p)
        \/ KV_delete(p, 1)
        \/ KV_return(p)

SpecKVFair ==
    InitKV /\ [][NextKVFair]_vars /\ \A p \in Callers : WF_vars(KV_resume(p))


\* ------------------------------------------------ the application process
\* Redis.from_url(settings.REDIS_URL): a new client, bound to _redis_client.
from_url(process) ==
    [process EXCEPT !.from_url = @ + 1, !.closed = Append(@, 0),
                    !.redis_client = process.from_url + 1]

\* init_db: CREATE TABLE IF NOT EXISTS items ..., committed.
init_db(process) == [process EXCEPT !.schema = TRUE]

\* init_db as DROP TABLE IF EXISTS items followed by CREATE TABLE items.
CreateTableIfNotExists_replacing(conn, table_exists) == EmptyDatabase

\* The statement of init_db on the database file: an items table that exists
\* is left as it is, rows and AUTOINCREMENT sequence; otherwise an empty one
\* is made.
CreateTableIfNotExists(conn, table_exists) ==
    IF table_exists THEN conn ELSE EmptyDatabase

\* connect_to_redis: with REDIS selected a client is made and pinged; a ping
\* that raises is caught, and _redis_client is set back to None.
connect_to_redis(selected, process, ping_ok) ==
    IF selected = "redis"
    THEN IF ping_ok THEN from_url(process)
         ELSE [from_url(process) EXCEPT !.redis_client = NoClient]
    ELSE process

\* close_redis_connection that closes nothing.
close_redis_connection_skipped(process) == process

\* close_redis_connection: closes the client _redis_client names, if any; the
\* name is left bound.
close_redis_connection(process) ==
    IF process.redis_client # NoClient
    THEN [process EXCEPT !.closed[process.redis_client] = @ + 1]
    ELSE process

\* lifespan up to its yield, with init_db and the ping succeeding or not.
lifespan_startup(selected, process, ping_ok) ==
    CASE selected = "sqlite" -> init_db(process)
      [] selected = "redis" -> connect_to_redis(selected, process, ping_ok)
      [] OTHER -> process

\* lifespan after its yield.
lifespan_shutdown(selected, process) ==
    IF selected = "redis" THEN close_redis_connection(process) ELSE process

\* --------------------------------------------------------- the API handlers
\* get_repository: the repository a request is handed.  IN_MEMORY: a new
\* InMemoryRepository() on every call; SQLITE: a SQLiteRepository() over the
\* database file; REDIS: a RedisRepository over the shared client, which is
\* made here when _redis_client is None; anything else: ValueError.  There is
\* no await in it, so a call of it is one step.
\* get_repository whose REDIS branch makes no client when there is none.
get_repository_not_lazy ==
    CASE storage_type = "in_memory" ->
            [raised |-> FALSE, kind |-> "in_memory", self |-> InMemoryRepository,
             redis_client |-> NoClient, app |-> app]
      [] storage_type = "sqlite" ->
            [raised |-> FALSE, kind |-> "sqlite", self |-> db,
             redis_client |-> NoClient, app |-> app]
      [] storage_type = "redis" ->
            [raised |-> FALSE, kind |-> "redis", self |-> redis,
             redis_client |-> app.redis_client,
             app |-> [app EXCEPT !.handed = @ \cup {app.redis_client}]]
      [] OTHER ->
            [raised |-> TRUE, kind |-> "none", self |-> None,
             redis_client |-> NoClient, app |-> app]

\* get_repository whose REDIS branch makes a client on every call.
get_repository_client_per_call ==
    CASE storage_type = "in_memory" ->
            [raised |-> FALSE, kind |-> "in_memory", self |-> InMemoryRepository,
             redis_client |-> NoClient, app |-> app]
      [] storage_type = "sqlite" ->
            [raised |-> FALSE, kind |-> "sqlite", self |-> db,
             redis_client |-> NoClient, app |-> app]
      [] storage_type = "redis" ->
            LET process == from_url(app)
            IN [raised |-> FALSE, kind |-> "redis", self |-> redis,
                redis_client |-> process.redis_client,
                app |-> [process EXCEPT !.handed = @ \cup {process.redis_client}]]
      [] OTHER ->
            [raised |-> TRUE, kind |-> "none", self |-> None,
             redis_client |-> NoClient, app |-> app]

\* get_repository whose else branch yields InMemoryRepository().
get_repository_falls_back ==
    CASE storage_type = "sqlite" ->
            [raised |-> FALSE, kind |-> "sqlite", self |-> db,
             redis_client |-> NoClient, app |-> app]
      [] storage_type = "redis" ->
            LET process == IF app.redis_client = NoClient THEN from_url(app) ELSE app
            IN [raised |-> FALSE, kind |-> "redis", self |-> redis,
                redis_client |-> process.redis_client,
                app |-> [process EXCEPT !.handed = @ \cup {process.redis_client}]]
      [] OTHER ->
            [raised |-> FALSE, kind |-> "in_memory", self |-> InMemoryRepository,
             redis_client |-> NoClient, app |-> app]

\* get_repository whose IN_MEMORY branch yields one module-level instance, the
\* one the previous request left.
get_repository_shared_instance ==
    CASE storage_type = "in_memory" ->
            [raised |-> FALSE, kind |-> "in_memory", self |-> mem,
             redis_client |-> NoClient, app |-> app]
      [] storage_type = "sqlite" ->
            [raised |-> FALSE, kind |-> "sqlite", self |-> db,
             redis_client |-> NoClient, app |-> app]
      [] storage_type = "redis" ->
            LET process == IF app.redis_client = NoClient THEN from_url(app) ELSE app
            IN [raised |-> FALSE, kind |-> "redis", self |-> redis,
                redis_client |-> process.redis_client,
                app |-> [process EXCEPT !.handed = @ \cup {process.redis_client}]]
      [] OTHER ->
            [raised |-> TRUE, kind |-> "none", self |-> None,
             redis_client |-> NoClient, app |-> app]

get_repository ==
    CASE storage_type = "in_memory" ->
            [raised |-> FALSE, kind |-> "in_memory", self |-> InMemoryRepository,
             redis_client |-> NoClient, app |-> app]
      [] storage_type = "sqlite" ->
            [raised |-> FALSE, kind |-> "sqlite", self |-> db,
             redis_client |-> NoClient, app |-> app]
      [] storage_type = "redis" ->
            LET process == IF app.redis_client = NoClient THEN from_url(app) ELSE app
            IN [raised |-> FALSE, kind |-> "redis", self |-> redis,
                redis_client |-> process.redis_client,
                app |-> [process EXCEPT !.handed = @ \cup {process.redis_client}]]
      [] OTHER ->
            [raised |-> TRUE, kind |-> "none", self |-> None,
             redis_client |-> NoClient, app |-> app]

\* BaseRepository: the call goes to the implementation of the instance.
Repo_create_item(repository, item) ==
    CASE repository.kind = "in_memory" -> IM_create_item(repository.self, item)
      [] repository.kind = "sqlite" -> SQL_create_item(repository.self, item)
      [] repository.kind = "redis" -> KV_create_item(repository.self, item)

Repo_get_item(repository, item_id) ==
    CASE repository.kind = "in_memory" -> IM_get_item(repository.self, item_id)
      [] repository.kind = "sqlite" -> SQL_get_item(repository.self, item_id)
      [] repository.kind = "redis" -> KV_get_item(repository.self, item_id)

\* all_keys: the order scan_iter enumerates in (the Redis implementation only).
Repo_list_items(repository, all_keys, name_filter, min_price) ==
    CASE repository.kind = "in_memory" ->
            IM_list_items(repository.self, name_filter, min_price)
      [] repository.kind = "sqlite" ->
            SQL_list_items(repository.self, name_filter, min_price)
      [] repository.kind = "redis" ->
            KV_list_items(repository.self, all_keys, name_filter, min_price)

Repo_update_item(repository, item_id, item) ==
    CASE repository.kind = "in_memory" -> IM_update_item(repository.self, item_id, item)
      [] repository.kind = "sqlite" -> SQL_update_item(repository.self, item_id, item)
      [] repository.kind = "redis" -> KV_update_item(repository.self, item_id, item)

Repo_delete_item(repository, item_id) ==
    CASE repository.kind = "in_memory" -> IM_delete_item(repository.self, item_id)
      [] repository.kind = "sqlite" -> SQL_delete_item(repository.self, item_id)
      [] repository.kind = "redis" -> KV_delete_item(repository.self, item_id)

\* The state the request's repository instance is left in.
SetRepo(repository, self) ==
    /\ IF repository.kind = "in_memory" THEN SetMem(self)
       ELSE UNCHANGED <<items, next_id>>
    /\ IF repository.kind = "sqlite" THEN SetDb(self)
       ELSE UNCHANGED <<rows, sqlite_sequence>>
    /\ IF repository.kind = "redis" THEN SetStore(self)
       ELSE UNCHANGED redis

\* Requests served one at a time, by the running application (startup done)
\* or by an application object whose lifespan was not run (a TestClient used
\* without `with` calls the handlers all the same).
InitApi ==
    /\ storage_type \in StorageType
    /\ StoresInit
    /\ \/ \E ping_ok \in BOOLEAN :
             app = [lifespan_startup(storage_type, NotStarted, ping_ok)
                       EXCEPT !.pc = "yield"]
       \/ app = NotStarted

\* The handlers' translation of a repository outcome into the HTTP status:
\* `if item is None: raise HTTPException(404)`, else the decorator's status.
get_item_status(item) ==
    IF item = None THEN 404 ELSE 200

update_item_status(updated_item) ==
    IF updated_item = None THEN 404 ELSE 200

\* A delete handler that answers 204 whatever delete_item returned.
delete_item_status_always_204(deleted) ==
    204

\* `if not await repository.delete_item(item_id): raise HTTPException(404)`.
delete_item_status(deleted) ==
    IF deleted THEN 204 ELSE 404

\* SQLiteRepository on a database init_db has not run on: the statement
\* raises sqlite3.OperationalError (no such table: items).
TableMissing(repository) == repository.kind = "sqlite" /\ ~app.schema

\* The response body is rendered by json.dumps(..., allow_nan=False), which
\* raises ValueError on a float that is not finite.
Renders(item) == item.price # Infinity

\* The status of the response.  No handler catches an exception other than
\* its own HTTPException: a repository call that raised, and a result that
\* cannot be rendered, are answered 500 by the server.
ResponseStatus(raised, rendered, status) ==
    IF raised \/ ~rendered THEN 500 ELSE status

\* POST /items/ -> 201 and the created Item; a body ItemCreate does not
\* accept is answered 422 before the handler runs.
Api_create_item(item) ==
    /\ IF ~ItemCreate_validate(item)
       THEN /\ Completed([NoCall EXCEPT !.op = "rejected", !.draft = item,
                                        !.status = 422])
            /\ UNCHANGED AppStores
       ELSE LET repository == get_repository
            IN IF TableMissing(repository)
               THEN /\ Completed([NoCall EXCEPT !.op = "create", !.draft = item,
                                                !.raised = TRUE,
                                                !.status = ResponseStatus(TRUE, TRUE, 201)])
                    /\ UNCHANGED AppStores
               ELSE /\ IdsGiven < MaxCreates
                    /\ LET r == Repo_create_item(repository, item)
                       IN /\ SetRepo(repository, r.self)
                          /\ Completed([NoCall EXCEPT
                                !.op = "create", !.draft = item,
                                !.id = r.ret.id, !.item = r.ret,
                                !.status = ResponseStatus(FALSE, Renders(r.ret), 201)])
    /\ app' = get_repository.app
    /\ UNCHANGED <<storage_type, calls>>

\* GET /items/?name_filter=&min_price= -> 200 and the list; min_price is
\* declared Query(None, gt=0), so a value <= 0 is answered 422 before the
\* handler runs.
Api_list_items(name_filter, min_price) ==
    /\ LET repository == get_repository
       IN IF min_price # NonePrice /\ ~(min_price > 0)
          THEN /\ Completed([NoCall EXCEPT !.op = "list", !.name_filter = name_filter,
                                           !.min_price = min_price, !.status = 422])
               /\ UNCHANGED <<items, next_id>>
          ELSE IF TableMissing(repository)
          THEN /\ Completed([NoCall EXCEPT !.op = "list", !.name_filter = name_filter,
                                           !.min_price = min_price, !.raised = TRUE,
                                           !.status = ResponseStatus(TRUE, TRUE, 200)])
               /\ UNCHANGED <<items, next_id>>
          ELSE /\ \E all_keys \in Orderings(Redis_scan(redis)) :
                     LET result == Repo_list_items(repository, all_keys,
                                                   name_filter, min_price)
                         raised == result = <<ValidationError>>
                         rendered == raised \/ \A n \in 1..Len(result) : Renders(result[n])
                     IN Completed([NoCall EXCEPT
                           !.op = "list", !.name_filter = name_filter,
                           !.min_price = min_price, !.list = result,
                           !.raised = raised,
                           !.status = ResponseStatus(raised, rendered, 200)])
               /\ IF repository.kind = "in_memory" THEN SetMem(repository.self)
                  ELSE UNCHANGED <<items, next_id>>
    /\ app' = get_repository.app
    /\ UNCHANGED <<storage_type, rows, sqlite_sequence, redis, calls>>

\* GET /items/{item_id} -> 200 and the Item, or 404 when get_item gave None.
Api_get_item(item_id) ==
    /\ LET repository == get_repository
       IN /\ IF TableMissing(repository)
             THEN Completed([NoCall EXCEPT !.op = "get", !.id = item_id,
                                           !.raised = TRUE,
                                           !.status = ResponseStatus(TRUE, TRUE, 200)])
             ELSE LET item == Repo_get_item(repository, item_id)
                      raised == item = ValidationError
                      rendered == raised \/ item = None \/ Renders(item)
                  IN Completed([NoCall EXCEPT
                        !.op = "get", !.id = item_id, !.item = item,
                        !.raised = raised,
                        !.status = ResponseStatus(raised, rendered,
                                                  get_item_status(item))])
          /\ IF repository.kind = "in_memory" THEN SetMem(repository.self)
             ELSE UNCHANGED <<items, next_id>>
    /\ app' = get_repository.app
    /\ UNCHANGED <<storage_type, rows, sqlite_sequence, redis, calls>>

\* PUT /items/{item_id} -> 200 and the updated Item, or 404; 422 for a body
\* ItemCreate does not accept.
Api_update_item(item_id, item) ==
    /\ IF ~ItemCreate_validate(item)
       THEN /\ Completed([NoCall EXCEPT !.op = "rejected", !.id = item_id,
                                        !.draft = item, !.status = 422])
            /\ UNCHANGED AppStores
       ELSE LET repository == get_repository
            IN IF TableMissing(repository)
               THEN /\ Completed([NoCall EXCEPT !.op = "update", !.id = item_id,
                                                !.draft = item, !.raised = TRUE,
                                                !.status = ResponseStatus(TRUE, TRUE, 200)])
                    /\ UNCHANGED AppStores
               ELSE LET r == Repo_update_item(repository, item_id, item)
                        raised == r.ret = ValidationError
                        rendered == raised \/ r.ret = None \/ Renders(r.ret)
                    IN /\ SetRepo(repository, r.self)
                       /\ Completed([NoCall EXCEPT
                             !.op = "update", !.id = item_id, !.draft = item,
                             !.item = r.ret, !.raised = raised,
                             !.status = ResponseStatus(raised, rendered,
                                                       update_item_status(r.ret))])
    /\ app' = get_repository.app
    /\ UNCHANGED <<storage_type, calls>>

\* DELETE /items/{item_id} -> 204, or 404 when delete_item gave False.
Api_delete_item(item_id) ==
    /\ LET repository == get_repository
       IN IF TableMissing(repository)
          THEN /\ Completed([NoCall EXCEPT !.op = "delete", !.id = item_id,
                                           !.raised = TRUE,
                                           !.status = ResponseStatus(TRUE, TRUE, 204)])
               /\ UNCHANGED AppStores
          ELSE LET r == Repo_delete_item(repository, item_id)
               IN /\ SetRepo(repository, r.self)
                  /\ Completed([NoCall EXCEPT
                        !.op = "delete", !.id = item_id, !.ok = r.ret,
                        !.status = ResponseStatus(FALSE, TRUE,
                                                  delete_item_status(r.ret))])
    /\ app' = get_repository.app
    /\ UNCHANGED <<storage_type, calls>>

NextApi ==
    \/ \E d \in Bodies : Api_create_item(d)
    \/ \E f \in NameFilters, m \in MinPrices : Api_list_items(f, m)
    \/ \E i \in ItemIds : Api_get_item(i)
    \/ \E i \in ItemIds, d \in UpdateBodies : Api_update_item(i, d)
    \/ \E i \in ItemIds : Api_delete_item(i)

SpecApi == InitApi /\ [][NextApi]_vars


\* ------------------------------------------- calls whose store primitive fails
\* No repository method has a try/except, and neither has get_db_connection:
\* an exception raised by a primitive the call awaits leaves the method at
\* that point.  `fault` names the primitive that raises ("none": no one does).
\* A call's outcome is [self, raised, ret]: the store after it, whether it
\* left by an exception, and what it returned when it did not.
NoFault == "none"
Raise(store) == [self |-> store, raised |-> TRUE, ret |-> None]
Return(r) == [self |-> r.self, raised |-> FALSE, ret |-> r.ret]

\* The primitives each SQLite method awaits, in order: aiosqlite.connect,
\* db.execute, fetchone/fetchall or commit, and the Item(...) constructors.
\* update_item goes on into get_item when a row was affected.
SQL_get_item_awaits(conn, item_id) ==
    {"connect", "execute", "fetch"} \cup
    (IF item_id \in DOMAIN conn.rows THEN {"deserialize"} ELSE {})
\* list_items filters in the statement: Item(...) runs only for the rows the
\* WHERE conditions let through.
SQL_list_items_awaits(conn, name_filter, min_price) ==
    {"connect", "execute", "fetch"} \cup
    (IF SQL_list_items(conn, name_filter, min_price) # <<>> THEN {"deserialize"} ELSE {})
SQL_create_item_awaits == {"connect", "execute", "commit"}
SQL_update_item_awaits(conn, item_id) ==
    {"connect", "execute", "commit"} \cup
    (IF item_id \in DOMAIN conn.rows THEN {"fetch", "deserialize"} ELSE {})
SQL_delete_item_awaits == {"connect", "execute", "commit"}

\* A statement that was executed but not committed is rolled back when its
\* connection closes, so the file changes only once commit has returned.
SQL_get_item_raising(conn, item_id, fault) ==
    IF fault \in SQL_get_item_awaits(conn, item_id) THEN Raise(conn)
    ELSE Return([self |-> conn, ret |-> SQL_get_item(conn, item_id)])

SQL_list_items_raising(conn, name_filter, min_price, fault) ==
    IF fault \in SQL_list_items_awaits(conn, name_filter, min_price) THEN Raise(conn)
    ELSE Return([self |-> conn, ret |-> SQL_list_items(conn, name_filter, min_price)])

SQL_create_item_raising(conn, item_create, fault) ==
    IF fault \in SQL_create_item_awaits THEN Raise(conn)
    ELSE Return(SQL_create_item(conn, item_create))

SQL_update_item_raising(conn, item_id, item_update, fault) ==
    IF fault \in {"connect", "execute", "commit"} THEN Raise(conn)
    ELSE LET upd == SQL_update_statement(conn, item_id, item_update)
         IN IF upd.rowcount > 0 /\ fault \in {"fetch", "deserialize"}
            THEN Raise(upd.self)
            ELSE Return(SQL_update_item(conn, item_id, item_update))

SQL_delete_item_raising(conn, item_id, fault) ==
    IF fault \in SQL_delete_item_awaits THEN Raise(conn)
    ELSE Return(SQL_delete_item(conn, item_id))

\* The commands each Redis method awaits, in order, with model_validate_json
\* where a value came back.
KV_get_item_awaits(store, item_id) ==
    {"get"} \cup (IF Redis_get(store, KeyOf(item_id)) # RedisNil THEN {"deserialize"} ELSE {})
KV_list_items_awaits(store) ==
    {"scan"} \cup (IF Redis_scan(store) # {} THEN {"mget", "deserialize"} ELSE {})
KV_create_item_awaits == {"incr", "set"}
\* update_item sends its SET only when get_item returned an Item: not when
\* the key was absent, and not when the value failed validation.
KV_update_item_awaits(store, item_id) ==
    KV_get_item_awaits(store, item_id) \cup
    (IF KV_get_item(store, item_id) \notin {None, ValidationError} THEN {"set"} ELSE {})
KV_delete_item_awaits == {"delete"}

\* get_item with its body in try/except Exception: return None.
KV_get_item_swallowing(store, item_id, fault) ==
    IF fault \in KV_get_item_awaits(store, item_id)
    THEN Return([self |-> store, ret |-> None])
    ELSE Return([self |-> store, ret |-> KV_get_item(store, item_id)])

KV_get_item_raising(store, item_id, fault) ==
    IF fault \in KV_get_item_awaits(store, item_id) THEN Raise(store)
    ELSE Return([self |-> store, ret |-> KV_get_item(store, item_id)])

KV_list_items_raising(store, all_keys, name_filter, min_price, fault) ==
    IF fault \in KV_list_items_awaits(store) THEN Raise(store)
    ELSE Return([self |-> store,
                 ret |-> KV_list_items(store, all_keys, name_filter, min_price)])

\* A create whose SET fails has already taken its id from the counter.
KV_create_item_raising(store, item_create, fault) ==
    IF fault = "incr" THEN Raise(store)
    ELSE LET next == KV_get_next_id(store)
         IN IF fault = "set" THEN Raise(next.store)
            ELSE Return(KV_create_write(next.store, next.ret, item_create))

KV_update_item_raising(store, item_id, item_update, fault) ==
    IF fault \in KV_update_item_awaits(store, item_id) THEN Raise(store)
    ELSE Return(KV_update_item(store, item_id, item_update))

KV_delete_item_raising(store, item_id, fault) ==
    IF fault \in KV_delete_item_awaits THEN Raise(store)
    ELSE Return(KV_delete_item(store, item_id))

\* get_db_connection yields the connection from inside `async with
\* aiosqlite.connect(...)`, and each method consumes it with `async for`.
\* The generator goes on past its yield, and so out of the `async with` that
\* closes the connection, only when the loop asks for a second value.  A
\* method leaves its loop in one of four ways: "exhausted" (the body ended,
\* the loop asked again, the generator finished), "return" (a return in the
\* body), "raise" (an exception in the body), "no_connection" (connect
\* itself raised).  After "return" and "raise" the generator is left
\* suspended at its yield and the connection stays open until the generator
\* is finalized, which the event loop does in a task of its own.
ConnectionAfter(loop_exit) ==
    CASE loop_exit = "exhausted" -> "closed"
      [] loop_exit \in {"return", "raise"} -> "open"
      [] loop_exit = "no_connection" -> "none"

\* How a fault leaves the loop.
FaultExit(fault) == IF fault = "connect" THEN "no_connection" ELSE "raise"

\* get_item: `return Item(...)` in the body when a row was fetched.
SQL_get_item_exit(conn, item_id, fault) ==
    IF fault \in SQL_get_item_awaits(conn, item_id) THEN FaultExit(fault)
    ELSE IF item_id \in DOMAIN conn.rows THEN "return" ELSE "exhausted"

\* list_items, create_item, delete_item: the body always returns.
SQL_list_items_exit(conn, name_filter, min_price, fault) ==
    IF fault \in SQL_list_items_awaits(conn, name_filter, min_price)
    THEN FaultExit(fault) ELSE "return"

SQL_create_item_exit(fault) ==
    IF fault \in SQL_create_item_awaits THEN FaultExit(fault) ELSE "return"

SQL_delete_item_exit(fault) ==
    IF fault \in SQL_delete_item_awaits THEN FaultExit(fault) ELSE "return"

\* update_item: `return await self.get_item(item_id)` in the body when a row
\* was affected.
SQL_update_item_exit(conn, item_id, fault) ==
    IF fault \in SQL_update_item_awaits(conn, item_id) THEN FaultExit(fault)
    ELSE IF item_id \in DOMAIN conn.rows THEN "return" ELSE "exhausted"

\* The caller's view of a call that went through r: the exception, or the
\* completed call.
Outcome(call, r, done) ==
    IF r.raised
    THEN /\ last' = [call EXCEPT !.raised = TRUE]
         /\ UNCHANGED <<issued, returned>>
    ELSE Completed(done)

FaultsOf(awaits) == awaits \cup {NoFault}

InitFault ==
    /\ storage_type \in {"sqlite", "redis"}
    /\ StoresInit
    /\ app = NotStarted

SQLite_get_item_faulty(item_id, fault) ==
    /\ storage_type = "sqlite"
    /\ fault \in FaultsOf(SQL_get_item_awaits(db, item_id))
    /\ LET r == SQL_get_item_raising(db, item_id, fault)
           call == [NoCall EXCEPT !.op = "get", !.id = item_id, !.fault = fault,
                      !.connection =
                         ConnectionAfter(SQL_get_item_exit(db, item_id, fault))]
       IN /\ SetDb(r.self)
          /\ Outcome(call, r, [call EXCEPT !.item = r.ret])
    /\ UNCHANGED <<app, storage_type, items, next_id, redis, calls>>

SQLite_list_items_faulty(name_filter, min_price, fault) ==
    /\ storage_type = "sqlite"
    /\ fault \in FaultsOf(SQL_list_items_awaits(db, name_filter, min_price))
    /\ LET r == SQL_list_items_raising(db, name_filter, min_price, fault)
           call == [NoCall EXCEPT !.op = "list", !.name_filter = name_filter,
                                  !.min_price = min_price, !.fault = fault,
                      !.connection =
                         ConnectionAfter(SQL_list_items_exit(db, name_filter,
                                                             min_price, fault))]
       IN /\ SetDb(r.self)
          /\ Outcome(call, r, [call EXCEPT !.list = r.ret])
    /\ UNCHANGED <<app, storage_type, items, next_id, redis, calls>>

SQLite_create_item_faulty(item_create, fault) ==
    /\ storage_type = "sqlite"
    /\ sqlite_sequence < MaxCreates
    /\ fault \in FaultsOf(SQL_create_item_awaits)
    /\ LET r == SQL_create_item_raising(db, item_create, fault)
           call == [NoCall EXCEPT !.op = "create", !.draft = item_create, !.fault = fault,
                      !.connection = ConnectionAfter(SQL_create_item_exit(fault))]
       IN /\ SetDb(r.self)
          /\ Outcome(call, r, [call EXCEPT !.id = r.ret.id, !.item = r.ret])
    /\ UNCHANGED <<app, storage_type, items, next_id, redis, calls>>

SQLite_update_item_faulty(item_id, item_update, fault) ==
    /\ storage_type = "sqlite"
    /\ fault \in FaultsOf(SQL_update_item_awaits(db, item_id))
    /\ LET r == SQL_update_item_raising(db, item_id, item_update, fault)
           call == [NoCall EXCEPT !.op = "update", !.id = item_id,
                                  !.draft = item_update, !.fault = fault,
                      !.connection =
                         ConnectionAfter(SQL_update_item_exit(db, item_id, fault))]
       IN /\ SetDb(r.self)
          /\ Outcome(call, r, [call EXCEPT !.item = r.ret])
    /\ UNCHANGED <<app, storage_type, items, next_id, redis, calls>>

SQLite_delete_item_faulty(item_id, fault) ==
    /\ storage_type = "sqlite"
    /\ fault \in FaultsOf(SQL_delete_item_awaits)
    /\ LET r == SQL_delete_item_raising(db, item_id, fault)
           call == [NoCall EXCEPT !.op = "delete", !.id = item_id, !.fault = fault,
                      !.connection = ConnectionAfter(SQL_delete_item_exit(fault))]
       IN /\ SetDb(r.self)
          /\ Outcome(call, r, [call EXCEPT !.ok = r.ret])
    /\ UNCHANGED <<app, storage_type, items, next_id, redis, calls>>

Redis_get_item_faulty(item_id, fault) ==
    /\ storage_type = "redis"
    /\ fault \in FaultsOf(KV_get_item_awaits(redis, item_id))
    /\ LET r == KV_get_item_raising(redis, item_id, fault)
           call == [NoCall EXCEPT !.op = "get", !.id = item_id, !.fault = fault]
       IN /\ SetStore(r.self)
          /\ Outcome(call, r, [call EXCEPT !.item = r.ret])
    /\ UNCHANGED <<app, storage_type, items, next_id, rows, sqlite_sequence, calls>>

Redis_list_items_faulty(name_filter, min_price, fault) ==
    /\ storage_type = "redis"
    /\ fault \in FaultsOf(KV_list_items_awaits(redis))
    /\ \E all_keys \in Orderings(Redis_scan(redis)) :
          LET r == KV_list_items_raising(redis, all_keys, name_filter, min_price, fault)
              call == [NoCall EXCEPT !.op = "list", !.name_filter = name_filter,
                                     !.min_price = min_price, !.fault = fault]
          IN /\ SetStore(r.self)
             /\ Outcome(call, r, [call EXCEPT !.list = r.ret])
    /\ UNCHANGED <<app, storage_type, items, next_id, rows, sqlite_sequence, calls>>

Redis_create_item_faulty(item_create, fault) ==
    /\ storage_type = "redis"
    /\ IdsGiven < MaxCreates
    /\ fault \in FaultsOf(KV_create_item_awaits)
    /\ LET r == KV_create_item_raising(redis, item_create, fault)
           call == [NoCall EXCEPT !.op = "create", !.draft = item_create, !.fault = fault]
       IN /\ SetStore(r.self)
          /\ Outcome(call, r, [call EXCEPT !.id = r.ret.id, !.item = r.ret])
    /\ UNCHANGED <<app, storage_type, items, next_id, rows, sqlite_sequence, calls>>

Redis_update_item_faulty(item_id, item_update, fault) ==
    /\ storage_type = "redis"
    /\ fault \in FaultsOf(KV_update_item_awaits(redis, item_id))
    /\ LET r == KV_update_item_raising(redis, item_id, item_update, fault)
           call == [NoCall EXCEPT !.op = "update", !.id = item_id,
                                  !.draft = item_update, !.fault = fault]
       IN /\ SetStore(r.self)
          /\ Outcome(call, r, [call EXCEPT !.item = r.ret])
    /\ UNCHANGED <<app, storage_type, items, next_id, rows, sqlite_sequence, calls>>

Redis_delete_item_faulty(item_id, fault) ==
    /\ storage_type = "redis"
    /\ fault \in FaultsOf(KV_delete_item_awaits)
    /\ LET r == KV_delete_item_raising(redis, item_id, fault)
           call == [NoCall EXCEPT !.op = "delete", !.id = item_id, !.fault = fault]
       IN /\ SetStore(r.self)
          /\ Outcome(call, r, [call EXCEPT !.ok = r.ret])
    /\ UNCHANGED <<app, storage_type, items, next_id, rows, sqlite_sequence, calls>>

\* Every primitive a store can fail in, for both stores.
Faults ==
    {NoFault, "connect", "execute", "commit", "fetch", "deserialize",
     "get", "set", "delete", "incr", "scan", "mget"}

NextFault ==
    \E fault \in Faults :
        \/ \E d \in KVCreateDrafts : SQLite_create_item_faulty(d, fault)
        \/ \E i \in ItemIds : SQLite_get_item_faulty(i, fault)
        \/ \E m \in {NonePrice, 2} : SQLite_list_items_faulty(NoneFilter, m, fault)
        \/ \E i \in ItemIds, d \in KVUpdateDrafts : SQLite_update_item_faulty(i, d, fault)
        \/ \E i \in ItemIds : SQLite_delete_item_faulty(i, fault)
        \/ \E d \in KVCreateDrafts : Redis_create_item_faulty(d, fault)
        \/ \E i \in ItemIds : Redis_get_item_faulty(i, fault)
        \/ Redis_list_items_faulty(NoneFilter, NonePrice, fault)
        \/ \E i \in ItemIds, d \in KVUpdateDrafts : Redis_update_item_faulty(i, d, fault)
        \/ \E i \in ItemIds : Redis_delete_item_faulty(i, fault)

SpecFault == InitFault /\ [][NextFault]_vars

\* ------------------------------------------- concurrent relational callers
\* Callers share the database file; each call opens its own connection(s).
\* A call is taken at its statement: SQLite lets one connection write at a
\* time, so a write and its commit are one step for every other connection.
\* The coroutine goes on only when the event loop resumes it after the await
\* (fetchone, commit, the connection's close), so the return is a step of its
\* own and other callers run before it.  update_item runs a second call,
\* get_item, after its commit, and other callers run between the two.
InitSQL ==
    /\ storage_type = "sqlite"
    /\ StoresInit
    /\ app = NotStarted

SQLUnchanged == UNCHANGED <<app, storage_type, items, next_id, redis>>

\* The call of p has run its statement and waits to be resumed; call is what
\* it will return.
SQL_awaits_return(p, call, connections) ==
    calls' = [calls EXCEPT ![p] = [Idle EXCEPT !.pc = "return",
                                               !.id = call.id,
                                               !.draft = call.draft,
                                               !.connections = connections,
                                               !.response = call]]

\* create_item to the end of its commit.
SQL_create(p, item_create) ==
    /\ calls[p].pc = "idle"
    /\ IdsGiven < MaxCreates
    /\ LET r == SQL_create_item(db, item_create)
       IN /\ SetDb(r.self)
          /\ SQL_awaits_return(p, [NoCall EXCEPT !.op = "create", !.draft = item_create,
                                      !.id = r.ret.id, !.item = r.ret, !.opened = 1,
                                      !.connection = ConnectionAfter("return")], 1)
    /\ NoCompletion
    /\ SQLUnchanged

\* get_item to the end of its SELECT: the row is read here.  What follows is
\* the await of fetchone and, when there was no row, of the connection's close.
SQL_get(p, item_id) ==
    /\ calls[p].pc = "idle"
    /\ LET item == SQL_get_item(db, item_id)
       IN SQL_awaits_return(p, [NoCall EXCEPT !.op = "get", !.id = item_id, !.item = item,
                                   !.opened = 1,
                                   !.connection = ConnectionAfter(
                                       IF item = None THEN "exhausted" ELSE "return")], 1)
    /\ NoCompletion
    /\ UNCHANGED <<rows, sqlite_sequence>>
    /\ SQLUnchanged

\* delete_item to the end of its commit.
SQL_delete(p, item_id) ==
    /\ calls[p].pc = "idle"
    /\ LET r == SQL_delete_item(db, item_id)
       IN /\ SetDb(r.self)
          /\ SQL_awaits_return(p, [NoCall EXCEPT !.op = "delete", !.id = item_id,
                                      !.ok = r.ret, !.opened = 1,
                                      !.connection = ConnectionAfter("return")], 1)
    /\ NoCompletion
    /\ SQLUnchanged

\* update_item from its connect to after its commit: with rowcount 0 the loop
\* is left at its end, the connection's close awaited and then None returned;
\* otherwise the call goes on to get_item, its connection still open.
SQL_update_execute(p, item_id, item_update) ==
    /\ calls[p].pc = "idle"
    /\ LET upd == SQL_update_statement(db, item_id, item_update)
       IN /\ SetDb(upd.self)
          /\ IF upd.rowcount > 0
             THEN calls' = [calls EXCEPT ![p] = [Idle EXCEPT !.pc = "update_read",
                                                             !.id = item_id,
                                                             !.draft = item_update,
                                                             !.connections = 1]]
             ELSE SQL_awaits_return(p, [NoCall EXCEPT !.op = "update", !.id = item_id,
                                           !.draft = item_update, !.item = None,
                                           !.opened = 1,
                                           !.connection = ConnectionAfter("exhausted")], 1)
    /\ NoCompletion
    /\ SQLUnchanged

\* `return await self.get_item(item_id)`: get_item opens its own connection.
SQL_update_connect(p) ==
    /\ calls[p].pc = "update_read"
    /\ calls' = [calls EXCEPT ![p].pc = "update_select",
                              ![p].connections = calls[p].connections + 1]
    /\ NoCompletion
    /\ UNCHANGED <<rows, sqlite_sequence>>
    /\ SQLUnchanged

\* get_item's SELECT; update_item will return what get_item returns.
SQL_update_select(p) ==
    /\ calls[p].pc = "update_select"
    /\ SQL_awaits_return(p, [NoCall EXCEPT !.op = "update", !.id = calls[p].id,
                                !.draft = calls[p].draft,
                                !.item = SQL_get_item(db, calls[p].id),
                                !.opened = calls[p].connections,
                                !.connection = ConnectionAfter("return")],
                         calls[p].connections)
    /\ NoCompletion
    /\ UNCHANGED <<rows, sqlite_sequence>>
    /\ SQLUnchanged

\* The event loop resumes the call and it returns to its caller.
SQL_return(p) ==
    /\ calls[p].pc = "return"
    /\ Completed(calls[p].response)
    /\ calls' = [calls EXCEPT ![p] = Idle]
    /\ UNCHANGED <<rows, sqlite_sequence>>
    /\ SQLUnchanged

NextSQL ==
    \E p \in Callers :
        \/ \E d \in KVCreateDrafts : SQL_create(p, d)
        \/ \E i \in ItemIds : SQL_get(p, i)
        \/ \E i \in ItemIds, d \in KVConcurrentUpdateDrafts : SQL_update_execute(p, i, d)
        \/ SQL_update_connect(p)
        \/ SQL_update_select(p)
        \/ \E i \in ItemIds : SQL_delete(p, i)
        \/ SQL_return(p)

SpecSQL == InitSQL /\ [][NextSQL]_vars

\* ----------------------------------- concurrent callers of one instance
\* Tasks of one event loop share one InMemoryRepository.  A call makes the
\* coroutine; the loop then runs it.  No method of the class awaits anything,
\* so once started a method runs to its return before any other task runs.
InitIM ==
    /\ storage_type = "in_memory"
    /\ StoresInit
    /\ app = NotStarted

IMUnchanged == UNCHANGED <<app, storage_type, rows, sqlite_sequence, redis>>

\* create_item(item_create) is called: the coroutine waits for the loop.
IM_create_call(p, item_create) ==
    /\ calls[p].pc = "idle"
    /\ IdsGiven + Cardinality({ q \in Callers : calls[q].pc = "create_item" }) < MaxCreates
    /\ calls' = [calls EXCEPT ![p] = [Idle EXCEPT !.pc = "create_item",
                                                  !.draft = item_create]]
    /\ last' = [NoCall EXCEPT !.op = "call", !.draft = item_create]
    /\ UNCHANGED <<items, next_id, issued, returned>>
    /\ IMUnchanged

\* The loop runs the coroutine: the body of create_item, first line to return.
IM_create_run(p) ==
    /\ calls[p].pc = "create_item"
    /\ LET r == IM_create_item(mem, calls[p].draft)
       IN /\ SetMem(r.self)
          /\ Completed([NoCall EXCEPT !.op = "create", !.draft = calls[p].draft,
                                      !.id = r.ret.id, !.item = r.ret])
    /\ calls' = [calls EXCEPT ![p] = Idle]
    /\ IMUnchanged

IM_get(p, item_id) ==
    /\ calls[p].pc = "idle"
    /\ Completed([NoCall EXCEPT !.op = "get", !.id = item_id,
                                !.item = IM_get_item(mem, item_id)])
    /\ UNCHANGED <<items, next_id, calls>>
    /\ IMUnchanged

IM_update(p, item_id, item_update) ==
    /\ calls[p].pc = "idle"
    /\ LET r == IM_update_item(mem, item_id, item_update)
       IN /\ SetMem(r.self)
          /\ Completed([NoCall EXCEPT !.op = "update", !.id = item_id,
                                      !.draft = item_update, !.item = r.ret])
    /\ UNCHANGED calls
    /\ IMUnchanged

IM_delete(p, item_id) ==
    /\ calls[p].pc = "idle"
    /\ LET r == IM_delete_item(mem, item_id)
       IN /\ SetMem(r.self)
          /\ Completed([NoCall EXCEPT !.op = "delete", !.id = item_id, !.ok = r.ret])
    /\ UNCHANGED calls
    /\ IMUnchanged

NextIM ==
    \E p \in Callers :
        \/ \E d \in KVCreateDrafts : IM_create_call(p, d)
        \/ IM_create_run(p)
        \/ \E i \in ItemIds : IM_get(p, i)
        \/ \E i \in ItemIds, d \in KVConcurrentUpdateDrafts : IM_update(p, i, d)
        \/ \E i \in ItemIds : IM_delete(p, i)

SpecIM == InitIM /\ [][NextIM]_vars

\* ------------------------------ one call sequence given to two backends
\* An InMemoryRepository and a RedisRepository over an empty keyspace are
\* given the same calls, one at a time.  last records what the in-memory
\* instance returned.
PairDrafts ==
    KVCreateDrafts \cup KVUpdateDrafts
        \cup { [name |-> <<"x", "b", "c">>, description |-> NoneStr,
                price |-> Infinity, fields_set |-> {}] }

InitPair ==
    /\ storage_type = "in_memory"
    /\ StoresInit
    /\ app = NotStarted

PairUnchanged == UNCHANGED <<app, storage_type, rows, sqlite_sequence, calls>>

\* The lists list_items of the key-value instance can give: one for each
\* order scan_iter may give the keys in.
KV_list_now(name_filter, min_price) ==
    { KV_list_items(redis, all_keys, name_filter, min_price) :
        all_keys \in Orderings(Redis_scan(redis)) }

Pair_create_item(item_create) ==
    /\ IdsGiven < MaxCreates
    /\ LET im == IM_create_item(mem, item_create)
           kv == KV_create_item(redis, item_create)
       IN /\ SetMem(im.self)
          /\ SetStore(kv.self)
          /\ Completed([NoCall EXCEPT !.op = "create", !.draft = item_create,
                                      !.id = im.ret.id, !.item = im.ret])
    /\ PairUnchanged

Pair_get_item(item_id) ==
    /\ Completed([NoCall EXCEPT !.op = "get", !.id = item_id,
                                !.item = IM_get_item(mem, item_id)])
    /\ UNCHANGED <<items, next_id, redis>>
    /\ PairUnchanged

Pair_list_items(name_filter, min_price) ==
    /\ Completed([NoCall EXCEPT !.op = "list", !.name_filter = name_filter,
                                !.min_price = min_price,
                                !.list = IM_list_items(mem, name_filter, min_price)])
    /\ UNCHANGED <<items, next_id, redis>>
    /\ PairUnchanged

Pair_update_item(item_id, item_update) ==
    /\ LET im == IM_update_item(mem, item_id, item_update)
           kv == KV_update_item(redis, item_id, item_update)
       IN /\ SetMem(im.self)
          /\ SetStore(kv.self)
          /\ Completed([NoCall EXCEPT !.op = "update", !.id = item_id,
                                      !.draft = item_update, !.item = im.ret])
    /\ PairUnchanged

Pair_delete_item(item_id) ==
    /\ LET im == IM_delete_item(mem, item_id)
           kv == KV_delete_item(redis, item_id)
       IN /\ SetMem(im.self)
          /\ SetStore(kv.self)
          /\ Completed([NoCall EXCEPT !.op = "delete", !.id = item_id, !.ok = im.ret])
    /\ PairUnchanged

NextPair ==
    \/ \E d \in PairDrafts : Pair_create_item(d)
    \/ \E i \in ItemIds : Pair_get_item(i)
    \/ \E nf \in NameFilters, mp \in MinPrices : Pair_list_items(nf, mp)
    \/ \E i \in ItemIds, d \in PairDrafts : Pair_update_item(i, d)
    \/ \E i \in ItemIds : Pair_delete_item(i)

SpecPair == InitPair /\ [][NextPair]_vars

\* ------------------------------------------- the process from start to stop
\* The lifespan of the application and the requests it serves in between.
\* The server starts requests only once lifespan has reached its yield and
\* resumes lifespan after the yield once no request is in flight.  A request
\* is two steps, the dependency get_repository and then the handler, so
\* requests overlap.
InitApp ==
    /\ storage_type \in StorageType \cup {"unknown"}
    /\ StoresInit
    /\ app = NotStarted

\* lifespan whose SQLITE branch does not call init_db.
Lifespan_enter_without_init_db ==
    /\ app.pc = "enter"
    /\ app' = [app EXCEPT !.pc = CASE storage_type = "redis" -> "connect_to_redis"
                                   [] OTHER -> "yield"]
    /\ UNCHANGED <<storage_type, AppStores, calls, last, issued, returned>>

\* lifespan, lines 27 and 32: which startup branch is taken.
Lifespan_enter ==
    /\ app.pc = "enter"
    /\ app' = [app EXCEPT !.pc = CASE storage_type = "sqlite" -> "init_db"
                                   [] storage_type = "redis" -> "connect_to_redis"
                                   [] OTHER -> "yield"]
    /\ UNCHANGED <<storage_type, AppStores, calls, last, issued, returned>>

\* await init_db(): it completes, or raises and the application never starts.
Lifespan_init_db(ok) ==
    /\ app.pc = "init_db"
    /\ app' = IF ok THEN [init_db(app) EXCEPT !.pc = "yield"]
              ELSE [app EXCEPT !.pc = "failed"]
    /\ IF ok THEN SetDb(CreateTableIfNotExists(db, app.schema))
       ELSE UNCHANGED <<rows, sqlite_sequence>>
    /\ UNCHANGED <<storage_type, items, next_id, redis, calls, last, issued, returned>>

\* await connect_to_redis(), the ping answering or not.
Lifespan_connect_to_redis(ping_ok) ==
    /\ app.pc = "connect_to_redis"
    /\ app' = [connect_to_redis(storage_type, app, ping_ok) EXCEPT !.pc = "yield"]
    /\ UNCHANGED <<storage_type, AppStores, calls, last, issued, returned>>

\* lifespan after its yield: the shutdown branch.
Lifespan_exit ==
    /\ app.pc = "yield"
    /\ \A p \in Callers : calls[p].pc = "idle"
    /\ app' = [lifespan_shutdown(storage_type, app) EXCEPT !.pc = "exit"]
    /\ UNCHANGED <<storage_type, AppStores, calls, last, issued, returned>>

\* Depends(get_repository) for a call of the application: the instance the
\* handler will use, or the ValueError, which the server answers with 500.
Depends_get_repository(p) ==
    /\ calls[p].pc = "idle"
    /\ LET repository == get_repository
       IN IF repository.raised
          THEN /\ last' = [NoCall EXCEPT !.op = "get_repository", !.raised = TRUE,
                                         !.status = 500]
               /\ UNCHANGED calls
          ELSE /\ calls' = [calls EXCEPT ![p] =
                              [Idle EXCEPT !.pc = "handler",
                                           !.repository =
                                              [kind |-> repository.kind,
                                               redis_client |-> repository.redis_client]]]
               /\ UNCHANGED last
    /\ app' = get_repository.app
    /\ UNCHANGED <<storage_type, AppStores, issued, returned>>

\* A request the server takes between lifespan's startup and its shutdown.
Request_get_repository(p) ==
    /\ app.pc = "yield"
    /\ Depends_get_repository(p)

\* The instance request p holds, over the store as it is now.
RepositoryOf(p) ==
    [kind |-> calls[p].repository.kind,
     self |-> CASE calls[p].repository.kind = "sqlite" -> db
                [] calls[p].repository.kind = "redis" -> redis
                [] OTHER -> InMemoryRepository]

\* The handlers, from the instance the dependency gave to the response.  A
\* handler awaits its repository call.  InMemoryRepository awaits nothing, so
\* the handler runs to its response in one step.  SQLiteRepository awaits its
\* connection, statement, fetch or commit and the close of the connection:
\* the statement reads or changes the file at one moment and the handler
\* answers later, other requests running in between.  RedisRepository awaits
\* each command, which the server executes at one moment while its reply
\* reaches the handler later: get and delete are one command, create is INCR
\* and then SET.
Created(item, ret) ==
    [NoCall EXCEPT !.op = "create", !.draft = item, !.id = ret.id, !.item = ret,
                   !.status = ResponseStatus(FALSE, Renders(ret), 201)]

Request_create_item(p, item) ==
    /\ calls[p].pc = "handler"
    /\ IdsGiven < MaxCreates
    /\ LET repository == RepositoryOf(p)
       IN CASE repository.kind = "redis" ->
                  LET next == KV_get_next_id(repository.self)
                  IN /\ SetRepo(repository, next.store)
                     /\ calls' = [calls EXCEPT ![p].pc = "create_set",
                                               ![p].id = next.ret,
                                               ![p].draft = item]
                     /\ NoCompletion
            [] repository.kind = "sqlite" ->
                  LET r == Repo_create_item(repository, item)
                  IN /\ SetRepo(repository, r.self)
                     /\ calls' = [calls EXCEPT ![p].pc = "response",
                                               ![p].response = Created(item, r.ret)]
                     /\ NoCompletion
            [] OTHER ->
                  LET r == Repo_create_item(repository, item)
                  IN /\ SetRepo(repository, r.self)
                     /\ calls' = [calls EXCEPT ![p] = Idle]
                     /\ Completed(Created(item, r.ret))
    /\ UNCHANGED <<app, storage_type>>

\* create_item of RedisRepository: its SET.  The reply, and with it the
\* handler's response, comes later.
Request_create_set(p) ==
    /\ calls[p].pc = "create_set"
    /\ LET repository == RepositoryOf(p)
           r == KV_create_write(repository.self, calls[p].id, calls[p].draft)
       IN /\ SetRepo(repository, r.self)
          /\ calls' = [calls EXCEPT ![p].pc = "response",
                                    ![p].response = Created(calls[p].draft, r.ret)]
    /\ NoCompletion
    /\ UNCHANGED <<app, storage_type>>

Request_get_item(p, item_id) ==
    /\ calls[p].pc = "handler"
    /\ LET repository == RepositoryOf(p)
           item == Repo_get_item(repository, item_id)
           raised == item = ValidationError
           rendered == raised \/ item = None \/ Renders(item)
           call == [NoCall EXCEPT !.op = "get", !.id = item_id, !.item = item,
                                  !.raised = raised,
                                  !.status = ResponseStatus(raised, rendered,
                                                            get_item_status(item))]
       IN /\ IF repository.kind \in {"sqlite", "redis"}
             THEN /\ calls' = [calls EXCEPT ![p].pc = "response",
                                            ![p].response = call]
                  /\ NoCompletion
             ELSE /\ calls' = [calls EXCEPT ![p] = Idle]
                  /\ Completed(call)
          /\ IF repository.kind = "in_memory" THEN SetMem(repository.self)
             ELSE UNCHANGED <<items, next_id>>
    /\ UNCHANGED <<app, storage_type, rows, sqlite_sequence, redis>>

Request_delete_item(p, item_id) ==
    /\ calls[p].pc = "handler"
    /\ LET repository == RepositoryOf(p)
           r == Repo_delete_item(repository, item_id)
           call == [NoCall EXCEPT !.op = "delete", !.id = item_id, !.ok = r.ret,
                                  !.status = delete_item_status(r.ret)]
       IN /\ SetRepo(repository, r.self)
          /\ IF repository.kind \in {"sqlite", "redis"}
             THEN /\ calls' = [calls EXCEPT ![p].pc = "response",
                                            ![p].response = call]
                  /\ NoCompletion
             ELSE /\ calls' = [calls EXCEPT ![p] = Idle]
                  /\ Completed(call)
    /\ UNCHANGED <<app, storage_type>>

\* A SQLiteRepository or RedisRepository call returns to its handler, which
\* answers.
Request_response(p) ==
    /\ calls[p].pc = "response"
    /\ Completed(calls[p].response)
    /\ calls' = [calls EXCEPT ![p] = Idle]
    /\ UNCHANGED <<app, storage_type, AppStores>>

\* The ids the requests ask for: the first two the store gives, each missing
\* before its create and after its delete, found in between.
RequestIds == {1, 2}

NextApp ==
    \/ Lifespan_enter
    \/ \E ok \in BOOLEAN : Lifespan_init_db(ok)
    \/ \E ping_ok \in BOOLEAN : Lifespan_connect_to_redis(ping_ok)
    \/ Lifespan_exit
    \/ \E p \in Callers :
          \/ Request_get_repository(p)
          \/ \E d \in KVUpdateDrafts \cup InfinityBodies : Request_create_item(p, d)
          \/ Request_create_set(p)
          \/ \E i \in RequestIds : Request_get_item(p, i)
          \/ \E i \in RequestIds : Request_delete_item(p, i)
          \/ Request_response(p)

SpecApp == InitApp /\ [][NextApp]_vars

\* ---------------------------------- the process after lifespan has exited
\* create_fastapi_app makes a new application whenever it is called, and
\* its lifespan runs again in the same process: the module's _redis_client
\* and the database file are as the lifespan before left them.
Lifespan_again ==
    /\ app.pc = "exit"
    /\ app.restarts < MaxRestarts
    /\ \A p \in Callers : calls[p].pc = "idle"
    /\ app' = [app EXCEPT !.pc = "enter", !.restarts = @ + 1]
    /\ UNCHANGED <<storage_type, AppStores, calls, last, issued, returned>>

\* A call of the application outside lifespan, after close_redis_connection
\* has run: the ASGI application still answers (a TestClient used without
\* `with` runs no lifespan), and get_repository is called for it.
Late_get_repository(p) ==
    /\ app.pc = "exit"
    /\ Depends_get_repository(p)

NextProcess ==
    \/ NextApp
    \/ Lifespan_again
    \/ \E p \in Callers : Late_get_repository(p)

SpecProcess == InitApp /\ [][NextProcess]_vars

\* The relational backend over several lifespans: the database file outlives
\* each of them.  The requests are the ones that write.
NextRestart ==
    \/ Lifespan_enter
    \/ \E ok \in BOOLEAN : Lifespan_init_db(ok)
    \/ Lifespan_exit
    \/ Lifespan_again
    \/ \E p \in Callers :
          \/ Request_get_repository(p)
          \/ \E d \in KVUpdateDrafts \cup InfinityBodies : Request_create_item(p, d)
          \/ \E i \in RequestIds : Request_delete_item(p, i)
          \/ Request_response(p)

SpecRestart == InitSQL /\ [][NextRestart]_vars


\* =============================================================== claims

\* C1: in each backend, create(D) returns an Item whose name, description and
\* price are D's and whose id no earlier create on that backend returned,
\* and the record is stored under that id.
C1_CreateReturnsFreshStoredItem ==
    [][last'.op = "create" =>
        /\ last'.item.name = last'.draft.name
        /\ last'.item.description = last'.draft.description
        /\ last'.item.price = last'.draft.price
        /\ last'.item.id \notin issued
        /\ last'.item.id \in DOMAIN StoredItems'
        /\ StoredItems'[last'.item.id] = last'.item]_vars

Range(f) == { f[x] : x \in DOMAIN f }

\* C2: get(id) returns the Item that create, or the latest update, returned
\* for that id when the id was created and not deleted, and NotFound for an
\* id never created or deleted since.
C2_GetReturnsLatestOrNotFound ==
    [][last'.op = "get" =>
        last'.item = IF last'.id \in DOMAIN returned
                     THEN returned[last'.id] ELSE None]_vars

\* C3: update(id, draft) on an existing id keeps every field the draft did
\* not set and overwrites exactly the fields it set, in every backend.
C3_UpdateIsPartial ==
    [][(last'.op = "update" /\ last'.id \in DOMAIN StoredItems) =>
        /\ last'.id \in DOMAIN StoredItems'
        /\ LET old == StoredItems[last'.id]
               new == StoredItems'[last'.id]
               draft == last'.draft
           IN /\ old # ValidationError /\ new # ValidationError
              /\ new.name = draft.name
              /\ new.price = draft.price
              /\ new.description = IF "description" \in draft.fields_set
                                   THEN draft.description ELSE old.description]_vars

\* C4: update(id, draft) with an id that is not stored returns NotFound and
\* leaves the stored records and the id counter as they were.
C4_UpdateAbsentWritesNothing ==
    [][(last'.op = "update" /\ last'.id \notin DOMAIN StoredItems) =>
        /\ last'.item = None
        /\ UNCHANGED <<items, next_id, rows, sqlite_sequence, redis>>]_vars

\* An update of an id that is not stored has returned NotFound on a
\* key-value store that holds other records.
C4_Witness ==
    /\ storage_type = "redis"
    /\ last.op = "update"
    /\ last.id \notin DOMAIN StoredItems
    /\ last.item = None
    /\ StoredItems # EmptyMap

\* C5: delete(id) returns true exactly when the id was stored; after a true
\* delete, get(id) is NotFound and a second delete(id) is false; no other
\* record changes.
C5_DeleteRemovesExactlyThatRecord ==
    [][last'.op = "delete" =>
        /\ last'.ok = (last'.id \in DOMAIN StoredItems)
        /\ \A i \in ItemIds :
              (last'.ok /\ last'.id = i) => /\ GetNow(i)' = None
                                             /\ DeleteNow(i)' = FALSE
        /\ \A j \in ItemIds \ {last'.id} :
              /\ (j \in DOMAIN StoredItems) = (j \in DOMAIN StoredItems')
              /\ j \in DOMAIN StoredItems => StoredItems'[j] = StoredItems[j]]_vars

\* A delete on the key-value backend has returned true and another record
\* is still stored.
C5_Witness ==
    /\ storage_type = "redis"
    /\ last.op = "delete"
    /\ last.ok
    /\ last.id \notin DOMAIN StoredItems
    /\ StoredItems # EmptyMap

\* The stored items a list with these arguments is to return: the name holds
\* name_filter as a case-insensitive substring and price >= min_price, for
\* each filter that is supplied.
ItemsSatisfying(name_filter, min_price) ==
    { item \in Range(StoredItems) :
        /\ item # ValidationError
        /\ name_filter # NoneFilter => Contains(lower(name_filter), lower(item.name))
        /\ min_price # NonePrice => item.price >= min_price }

\* C6: list(nameFilter, minPrice) returns exactly the stored items that
\* satisfy every supplied filter, each once, in every backend.
C6_ListReturnsExactlyMatching ==
    [][last'.op = "list" =>
        /\ Range(last'.list) = ItemsSatisfying(last'.name_filter, last'.min_price)
        /\ Len(last'.list) =
              Cardinality(ItemsSatisfying(last'.name_filter, last'.min_price))]_vars

\* C8: ids are allocated monotonically and never reused: the id a create
\* returns is greater than every id an earlier create returned, whatever was
\* deleted in between.
C8_IdsStrictlyIncrease ==
    [][last'.op = "create" => \A i \in issued : last'.item.id > i]_vars

\* On the relational backend id 1, the highest id at the time, was deleted
\* and the next create has returned 2.
C8_Witness ==
    /\ storage_type = "sqlite"
    /\ last.op = "create"
    /\ last.item.id = 2
    /\ issued = {1, 2}
    /\ DOMAIN StoredItems = {2}

\* C9: update(id, draft) on an existing id returns and stores an Item whose id
\* is the id given, and moves no record to another key or row.
C9_UpdateKeepsId ==
    [][last'.op = "update" =>
        LET before == StoredItems
            after == StoredItems'
        IN last'.id \in DOMAIN before =>
              /\ last'.item \notin {None, ValidationError}
              /\ last'.item.id = last'.id
              /\ DOMAIN after = DOMAIN before
              /\ \A j \in DOMAIN after :
                    after[j] # ValidationError /\ after[j].id = j]_vars

\* A create of caller p is in flight: between its INCR and its SET, or past
\* its SET with the reply on its way.
CreateInFlight(p) ==
    \/ calls[p].pc = "create_set"
    \/ calls[p].pc = "return" /\ calls[p].response.op = "create"

\* C10: creates running concurrently through the shared client get pairwise
\* distinct ids, in every interleaving of their INCR and SET steps with each
\* other and with the replies, and none writes over a record another create
\* wrote: the id of a create in flight is held by no other create in flight
\* and was returned by none, and until its SET the key of that id holds no
\* record.
C10_ConcurrentCreatesDistinct ==
    \A p \in Callers :
        CreateInFlight(p) =>
            /\ calls[p].id \notin issued
            /\ \A q \in Callers \ {p} :
                  CreateInFlight(q) => calls[q].id # calls[p].id
            /\ calls[p].pc = "create_set" => KeyOf(calls[p].id) \notin DOMAIN redis

\* Two creates are in flight at once and the later allocated one has
\* overtaken the earlier: its record is written and its reply on the way
\* while the earlier has not sent its SET.
C10_Witness ==
    /\ calls[1].pc = "create_set"
    /\ calls[1].id = 1
    /\ calls[2].pc = "return"
    /\ calls[2].response.op = "create"
    /\ calls[2].id = 2
    /\ KeyOf(2) \in DOMAIN redis
    /\ issued = {}

\* C7: through the API with the in-memory backend selected, an item a request
\* created is returned by get-by-id and by an unfiltered list in every later
\* request until a delete request removes it; a get of it answers 404 only
\* after it was deleted.
C7_ApiItemVisibleUntilDeleted ==
    [][storage_type = "in_memory" =>
        /\ (last'.op = "get" /\ last'.id \in DOMAIN returned) =>
              /\ last'.status = 200
              /\ last'.item = returned[last'.id]
        /\ (last'.op = "list" /\ last'.status = 200
                /\ last'.name_filter = NoneFilter /\ last'.min_price = NonePrice) =>
              Range(returned) \subseteq Range(last'.list)]_vars

\* C11: in the key-value backend deletion is irreversible.  An id a create
\* returned whose key holds no record is an id a delete returned true for
\* (create writes the record before it returns, and only delete removes one);
\* from then on no step of any call on the shared client, the SET of an
\* update that read the record before the delete included, stores a record
\* under it again, so no later get or list returns an item with that id.
C11_DeleteIsIrreversible ==
    [][\A i \in ItemIds :
          (i \in issued /\ KV_get_item(redis, i) = None) =>
              /\ KV_get_item(redis', i) = None
              /\ KeyOf(i) \notin Redis_scan(redis')]_vars

\* The key-value store that holds exactly the records of the mapping m.
KeyspaceHolding(m) ==
    [k \in { KeyOf(i) : i \in DOMAIN m } |-> model_dump_json(m[k[2]])]

\* C12: for every store content, every name filter (those containing % or _
\* included) and every minimum price, the relational backend's list returns
\* the same set of items as the in-memory backend's list and the key-value
\* backend's list do over the same records.
C12_RelationalListEqualsOthers ==
    [][(storage_type = "sqlite" /\ last'.op = "list") =>
          LET in_memory == [items |-> StoredItems, next_id |-> IdsGiven + 1]
              key_value == KeyspaceHolding(StoredItems)
          IN /\ Range(last'.list) =
                   Range(IM_list_items(in_memory, last'.name_filter, last'.min_price))
             /\ \A all_keys \in Orderings(Redis_scan(key_value)) :
                   Range(last'.list) =
                      Range(KV_list_items(key_value, all_keys,
                                          last'.name_filter, last'.min_price))]_vars

\* C13: in the relational and key-value backends (the in-memory backend
\* awaits no store primitive), a fault raised by a primitive the call
\* reaches (connect, execute, commit, fetch, get, set, delete, incr, scan,
\* mget, deserialize) reaches the caller as a fault: the call does not
\* return None, False or a list in its place; and a call no primitive failed
\* in does not raise.
C13_FaultsPropagate ==
    [][last'.raised <=> last'.fault # NoFault]_vars

\* A get of a stored id on the key-value backend has raised because decoding
\* the stored value failed.
C13_Witness ==
    /\ storage_type = "redis"
    /\ last.op = "get"
    /\ last.fault = "deserialize"
    /\ last.raised
    /\ last.id \in DOMAIN StoredItems

\* C14: when settings.STORAGE_TYPE is none of in_memory, sqlite, redis, every
\* call of get_repository raises and the request ends with that error: no
\* request is handed a repository instance, no key-value client is made, no
\* store is touched; nothing falls back to a working backend.
C14_UnknownSelectionRaises ==
    [][storage_type \notin StorageType =>
          /\ \A p \in Callers : calls'[p] = Idle
          /\ app'.from_url = 0 /\ app'.redis_client = NoClient
          /\ UNCHANGED <<AppStores, issued, returned>>
          /\ (app'.pc = "yield" /\ app.pc = "yield") =>
                (last'.op = "get_repository" /\ last'.raised)]_vars

\* Under an unknown selection a request has asked for its repository and
\* got the error.
C14_Witness ==
    /\ storage_type = "unknown"
    /\ app.pc = "yield"
    /\ last.op = "get_repository"
    /\ last.raised
    /\ last.status = 500

\* A request is being served or has been: it holds a repository instance, or
\* a call has completed.
SomeRequestServed == (\E p \in Callers : calls[p].pc # "idle") \/ last # NoCall

\* C15: with the relational backend selected no request is served before
\* init_db has completed: whenever a request holds a repository or a
\* relational call has completed, lifespan is at or past its yield and the
\* schema exists; a startup whose init_db raised serves nothing.
C15_InitDbBeforeServing ==
    storage_type = "sqlite" =>
        /\ SomeRequestServed => (app.schema /\ app.pc \in {"yield", "exit"})
        /\ app.pc \in {"yield", "exit"} => app.schema

\* A relational create has been served, after init_db.
C15_Witness ==
    /\ storage_type = "sqlite"
    /\ last.op = "create"
    /\ last.status = 201
    /\ app.schema

\* C16: with the key-value backend selected startup never fails, whatever
\* the ping did, and every request that got through get_repository, after a
\* failed ping too, holds an instance whose client is a made one that has
\* not been closed; get_repository raised for none.
C16_FailedPingStillServes ==
    storage_type = "redis" =>
        /\ app.pc # "failed"
        /\ last.op # "get_repository"
        /\ \A p \in Callers :
              calls[p].pc # "idle" =>
                  /\ calls[p].repository.kind = "redis"
                  /\ calls[p].repository.redis_client \in 1..app.from_url
                  /\ app.closed[calls[p].repository.redis_client] = 0

\* The startup ping failed (client 1 was dropped) and a request whose command
\* the server has executed awaits the reply on the client made for it.
C16_Witness ==
    /\ storage_type = "redis"
    /\ app.pc = "yield"
    /\ app.from_url = 2
    /\ \E p \in Callers :
          /\ calls[p].pc = "response"
          /\ calls[p].response.op = "create"
          /\ calls[p].repository.redis_client = 2

\* C17: once lifespan has exited with the key-value backend selected, every
\* client that was handed to a repository instance has been closed exactly
\* once; no client is closed before that or more than once, so none is
\* closed under a request that awaits a reply on it; and with another
\* backend selected no client is ever made or closed.
C17_ClientClosedOnceAtShutdown ==
    /\ storage_type # "redis" => (app.from_url = 0 /\ app.closed = <<>>)
    /\ \A c \in 1..app.from_url : app.closed[c] <= 1
    /\ app.pc # "exit" => \A c \in 1..app.from_url : app.closed[c] = 0
    /\ app.pc = "exit" =>
          /\ \A c \in app.handed : app.closed[c] = 1
          /\ \A p \in Callers : calls[p].pc = "idle"

\* The process has stopped after requests used the client made at startup.
C17_Witness ==
    /\ storage_type = "redis"
    /\ app.pc = "exit"
    /\ app.handed = {1}
    /\ app.closed[1] = 1
    /\ last.op = "create"

\* C18: with the key-value backend selected every repository instance handed
\* out holds the one client _redis_client names, whether connect_to_redis
\* made it or the first request did after a failed ping; requests in flight
\* together hold the same client, and requests make at most one.
C18_OneSharedClient ==
    storage_type = "redis" =>
        /\ Cardinality(app.handed) <= 1
        /\ \A p \in Callers :
              calls[p].pc # "idle" =>
                  /\ calls[p].repository.redis_client = app.redis_client
                  /\ calls[p].repository.redis_client \in app.handed
        /\ app.from_url <= 2
        /\ app.from_url = 2 => 1 \notin app.handed

\* Two requests are in flight after a failed ping, both on the client the
\* first of them made: one awaits the reply to its SET, the other is between
\* its INCR and its SET.
C18_Witness ==
    /\ storage_type = "redis"
    /\ app.from_url = 2
    /\ \A p \in Callers : calls[p].repository.redis_client = 2
    /\ \E p \in Callers : calls[p].pc = "response"
    /\ \E p \in Callers : calls[p].pc = "create_set"

\* C19: when a relational operation (get, list, create, update, delete) has
\* returned to its caller, by a result returned from inside the acquisition
\* loop, by not-found or by a fault, the connection it acquired from
\* get_db_connection has been closed.
C19_ConnectionReleasedAtReturn ==
    (storage_type = "sqlite" /\ last.op \in {"get", "list", "create", "update", "delete"}) =>
        last.connection # "open"

\* C20: through the API every stored record, in every backend, is an Item
\* with price > 0, a name of 3 to 50 characters and, when it has one, a
\* description of at most 200; every create and update step keeps that, and a
\* body that breaks a constraint is answered 422 with every store left as it
\* was.
C20_StoredItemsAreValid ==
    [][/\ \A item \in Range(StoredItems') :
             /\ item # ValidationError
             /\ item.price > 0
             /\ Len(item.name) >= 3 /\ Len(item.name) <= 50
             /\ item.description = NoneStr \/ Len(item.description) <= 200
       /\ (last'.draft # NoDraft /\ last'.draft \in InvalidBodies) =>
             /\ last'.status = 422
             /\ UNCHANGED AppStores]_vars

\* C21: at the API boundary a NotFound outcome of get, update or delete (None,
\* None, False) is answered 404 and never a success status, and a found outcome
\* is never answered 404: it is answered 200 (get, update) or 204 (delete), or
\* 500 when the Item found cannot be rendered.  A call that raised returned
\* neither outcome and is answered 500.  Over a store that outlives the
\* request (sqlite, redis) a call that returned is answered 404 exactly when
\* the id is not stored when the request arrives.
C21_NotFoundIs404 ==
    [][/\ last'.op \in {"get", "update"} =>
            /\ last'.status = 404 <=> (~last'.raised /\ last'.item = None)
            /\ last'.raised => last'.status = 500
            /\ (~last'.raised /\ last'.item # None) =>
                  last'.status = IF Renders(last'.item) THEN 200 ELSE 500
            /\ (storage_type # "in_memory" /\ ~last'.raised) =>
                  (last'.status = 404 <=> GetNow(last'.id) = None)
       /\ last'.op = "delete" =>
            /\ last'.status = 404 <=> (~last'.raised /\ ~last'.ok)
            /\ last'.raised => last'.status = 500
            /\ (~last'.raised /\ last'.ok) => last'.status = 204
            /\ (storage_type # "in_memory" /\ ~last'.raised) =>
                  (last'.status = 404 <=> ~DeleteNow(last'.id))]_vars

\* A delete of an id that is not stored was answered 404 while another item is.
C21_Witness ==
    /\ storage_type = "sqlite"
    /\ last.op = "delete"
    /\ ~last.ok
    /\ last.status = 404
    /\ DOMAIN StoredItems # {}

\* C22 (as stated): get and list change neither the stored records nor the id
\* counter, and a get or list repeated with the same arguments, with no create,
\* update or delete in between, returns the same result.
C22_ReadsRepeatIdentically ==
    [][last'.op \in {"get", "list"} =>
          /\ AppStores' = AppStores
          /\ (last.op = "get" /\ last'.op = "get" /\ last'.id = last.id) =>
                last'.item = last.item
          /\ (/\ last.op = "list" /\ last'.op = "list"
              /\ last'.name_filter = last.name_filter
              /\ last'.min_price = last.min_price) =>
                last'.list = last.list]_vars

\* C22 (amended): get and list change neither the stored records nor the id
\* counter; a repeated get returns the same result, and a repeated list returns
\* the same items, in the same order in the in-memory and relational backends
\* and in whatever order the scan gives them in the key-value backend.
C22_ReadsChangeNothing ==
    [][last'.op \in {"get", "list"} =>
          /\ AppStores' = AppStores
          /\ (last.op = "get" /\ last'.op = "get" /\ last'.id = last.id) =>
                last'.item = last.item
          /\ (/\ last.op = "list" /\ last'.op = "list"
              /\ last'.name_filter = last.name_filter
              /\ last'.min_price = last.min_price) =>
                IF storage_type = "redis"
                THEN Range(last'.list) = Range(last.list)
                ELSE last'.list = last.list]_vars

\* A key-value list returned two stored items, the later id first.
C22_Witness ==
    /\ storage_type = "redis"
    /\ last.op = "list"
    /\ Len(last.list) = 2
    /\ last.list[1].id > last.list[2].id
    /\ Cardinality(DOMAIN StoredItems) = 2

\* C23: in all three backends a list with min_price exactly 0 applies no price
\* filter: it returns the items a list with the same name filter and no
\* min_price returns (for the key-value store, in one of the key orders).
\* A list writes nothing, so the store the call has just returned from is the
\* store it read.
C23_ZeroMinPriceIsNoFilter ==
    (last.op = "list" /\ last.min_price = 0) =>
        last.list \in ListNow(last.name_filter, NonePrice)

\* A list with a name filter and min_price 0 returned one of two stored items.
C23_Witness ==
    /\ last.op = "list"
    /\ last.min_price = 0
    /\ TruthyStr(last.name_filter)
    /\ Len(last.list) = 1
    /\ Cardinality(DOMAIN StoredItems) = 2

\* The record an update in flight is to store: the one it read with its GET,
\* with the name and the price of its draft, and the description of its
\* draft when the draft set one.
MergedRecord(call) ==
    [id |-> call.id, name |-> call.draft.name,
     description |-> IF "description" \in call.draft.fields_set
                     THEN call.draft.description
                     ELSE call.existing.description,
     price |-> call.draft.price]

\* C24: two updates of one existing id interleave in the key-value backend.
\* The record under a key changes only at a SET, and the SET of an update
\* stores that writer's complete merged record, whatever another update
\* wrote between this writer's GET and its SET; that record is what the
\* update returns.  So after both complete the stored record is the merged
\* record of the update whose SET executed last.
C24_LastWriteWins ==
    [][\A i \in ItemIds :
          \/ /\ KeyOf(i) \in DOMAIN redis
             /\ KeyOf(i) \in DOMAIN redis'
             /\ redis'[KeyOf(i)] = redis[KeyOf(i)]
          \/ KeyOf(i) \notin DOMAIN redis /\ KeyOf(i) \notin DOMAIN redis'
          \/ \E p \in Callers :
                /\ calls[p].pc = "create_set"
                /\ calls[p].id = i
                /\ calls'[p].pc = "return"
                /\ KeyOf(i) \notin DOMAIN redis
          \/ \E p \in Callers :
                /\ calls[p].pc = "update_set"
                /\ calls[p].id = i
                /\ calls'[p].pc = "return"
                /\ redis'[KeyOf(i)] = model_dump_json(MergedRecord(calls[p]))
                /\ calls'[p].response.op = "update"
                /\ calls'[p].response.item = MergedRecord(calls[p])]_vars

\* One update has returned after storing a description; the other, which read
\* the record before that and leaves the description unset, has sent its SET
\* since and the record holds the description it read.
C24_Witness ==
    \E p \in Callers :
        /\ calls[p].pc = "return"
        /\ calls[p].response.op = "update"
        /\ calls[p].response.item # None
        /\ "description" \notin calls[p].draft.fields_set
        /\ last.op = "update"
        /\ last.id = calls[p].id
        /\ last.item # None
        /\ last.item.description # calls[p].response.item.description
        /\ KV_get_item(redis, last.id) = calls[p].response.item

\* C25: relational update returns NotFound exactly when its UPDATE affected no
\* row, and an Item whenever it affected one, whatever other callers do between
\* the UPDATE and the read-back.  (A call at update_select affected a row; a
\* call that affected none never gets there.)
C25_NotFoundIffNoRowAffected ==
    [][\A p \in Callers :
          (calls[p].pc = "update_select" /\ calls'[p].pc = "return") =>
              calls'[p].response.item # None]_vars

\* C26: the Item a successful update returns is the record that this update
\* persisted, also when another update of the same id runs concurrently.  In
\* the relational backend the persisted record is the row its UPDATE wrote:
\* the id with the draft's name, description and price.
C26_UpdateReturnsWhatItPersisted ==
    [][\A p \in Callers :
          (/\ calls[p].pc = "update_select" /\ calls'[p].pc = "return"
           /\ calls'[p].response.item # None) =>
              calls'[p].response.item = Item(calls[p].id, calls[p].draft)]_vars

\* C27: in the relational backend a call holds at most one open connection at
\* any moment and opens exactly one connection; update opens no second
\* connection while its own is held.  (With every call holding at most one,
\* n calls in flight hold at most n.)
C27_OneConnectionPerCall ==
    /\ \A p \in Callers : calls[p].connections <= 1
    /\ last.op # "none" => last.opened = 1

\* C28: with the in-memory backend selected every request gets an instance of
\* its own, constructed with an empty item map and next id 1, so no request
\* works on the map or counter of another: whatever earlier requests created,
\* a create is given id 1 and leaves an instance holding that one item, a get,
\* update or delete finds nothing, and a list is empty.
C28_FreshInstancePerRequest ==
    [][storage_type = "in_memory" =>
          /\ last'.op = "create" =>
                /\ last'.item.id = 1
                /\ items' = Put(EmptyMap, 1, last'.item)
                /\ next_id' = 2
          /\ last'.op \in {"get", "update"} =>
                /\ last'.item = None
                /\ items' = EmptyMap /\ next_id' = 1
          /\ last'.op = "delete" =>
                /\ ~last'.ok
                /\ items' = EmptyMap /\ next_id' = 1
          /\ (last'.op = "list" /\ last'.status = 200) =>
                /\ last'.list = <<>>
                /\ items' = EmptyMap /\ next_id' = 1]_vars

\* After a request has created item 1, a request for item 1 found nothing.
C28_Witness ==
    /\ storage_type = "in_memory"
    /\ 1 \in issued
    /\ last.op = "get"
    /\ last.id = 1
    /\ last.item = None
    /\ last.status = 404

\* C29: creates issued concurrently on one shared in-memory instance never
\* return an id given before, or held, in that instance: the ids are pairwise
\* distinct.  Each created item is stored under its own id, and stays stored
\* as it was last returned until a delete of that id.
C29_ConcurrentCreatesDistinctIds ==
    [][/\ \A p \in Callers :
            (calls[p].pc = "create_item" /\ calls'[p].pc = "idle") =>
                /\ last'.op = "create"
                /\ last'.item.id \notin issued
                /\ last'.item.id \notin DOMAIN items
                /\ items'[last'.item.id] = last'.item
       /\ \A id \in DOMAIN returned' :
            id \in DOMAIN items' /\ items'[id] = returned'[id]]_vars

\* A create returned id 1 while another create on the instance was waiting to
\* run; item 1 is stored.
C29_Witness ==
    /\ storage_type = "in_memory"
    /\ last.op = "create"
    /\ last.item.id = 1
    /\ \E q \in Callers : calls[q].pc = "create_item"
    /\ 1 \in DOMAIN items
    /\ items[1] = last.item

\* C30: after any sequence of valid create, get, list, update and delete calls
\* given one at a time to an in-memory and a key-value backend that started
\* empty, the next call returns the same result in both: the same Item or
\* NotFound for get and update, the same boolean for delete, the same Item
\* for create, and the same set of Items for list.
C30_InMemoryAndKeyValueAgree ==
    /\ \A i \in ItemIds :
          /\ IM_get_item(mem, i) = KV_get_item(redis, i)
          /\ IM_delete_item(mem, i).ret = KV_delete_item(redis, i).ret
          /\ \A d \in PairDrafts :
                IM_update_item(mem, i, d).ret = KV_update_item(redis, i, d).ret
    /\ \A d \in PairDrafts :
          IM_create_item(mem, d).ret = KV_create_item(redis, d).ret
    /\ \A nf \in NameFilters, mp \in MinPrices :
          \A list \in KV_list_now(nf, mp) :
              Range(IM_list_items(mem, nf, mp)) = Range(list)

\* C31: the relational backend's list returns its items in strictly ascending
\* id order, whatever the table holds (rows with an infinite price too) and
\* whichever filters are given (a min_price of 0 among them): in every state
\* of the table every list_items call would, and the one that has just
\* returned did.
C31_RelationalListAscending ==
    storage_type = "sqlite" =>
        /\ \A name_filter \in NameFilters, min_price \in MinPrices :
              LET list == SQL_list_items(db, name_filter, min_price)
              IN \A i, j \in 1..Len(list) : i < j => list[i].id < list[j].id
        /\ last.op = "list" =>
              \A i, j \in 1..Len(last.list) :
                  i < j => last.list[i].id < last.list[j].id

\* A relational list with a name filter and min_price 0 returned both stored
\* items, the second of infinite price.
C31_Witness ==
    /\ storage_type = "sqlite"
    /\ last.op = "list"
    /\ TruthyStr(last.name_filter)
    /\ last.min_price = 0
    /\ Len(last.list) = 2
    /\ last.list[1].id = 1
    /\ last.list[2].id = 2
    /\ last.list[2].price = Infinity

\* C35: a key-value list that runs while other callers delete never faults
\* and returns no placeholder for a removed record.  A key the scan gave that
\* is gone at the MGET is skipped; the items the call is to return are exactly
\* the records the scanned keys hold at the MGET, a moment within the call;
\* and the call returns those.
C35_ListSkipsDeletedKeys ==
    [][\A p \in Callers :
          /\ (calls[p].pc = "list_mget" /\ calls'[p].pc = "return") =>
                LET all_keys == calls[p].all_keys
                    held == { i \in 1..Len(all_keys) : all_keys[i] \in DOMAIN redis }
                    response == calls'[p].response
                IN /\ response.op = "list"
                   /\ ~response.raised
                   /\ Len(response.list) = Cardinality(held)
                   /\ \A n \in 1..Len(response.list) :
                         /\ response.list[n] \notin {None, ValidationError}
                         /\ \E i \in held :
                               /\ all_keys[i] = KeyOf(response.list[n].id)
                               /\ redis[all_keys[i]] =
                                     model_dump_json(response.list[n])
          /\ (calls[p].pc = "return" /\ calls[p].response.op = "list"
                 /\ calls'[p].pc = "idle") =>
                /\ last'.op = "list"
                /\ ~last'.raised
                /\ last'.list = calls[p].response.list]_vars

\* C32: on one shared key-value client no operation waits for another
\* caller's operation.  In every reachable state a caller between two
\* commands can issue its next command, a caller whose last command was
\* executed can return, and an idle caller can issue a get, a list or a
\* delete, whatever the other callers are in the middle of; and with the
\* commands answered, every started get, list, create, update and delete
\* completes: a caller inside an operation is outside it later.
C32_NoCallerWaits ==
    /\ [](\A p \in Callers :
            /\ calls[p].pc = "create_set" => ENABLED KV_create_set(p)
            /\ calls[p].pc = "update_set" => ENABLED KV_update_set(p)
            /\ calls[p].pc = "list_mget" => ENABLED KV_list_mget(p)
            /\ calls[p].pc = "return" => ENABLED KV_return(p)
            /\ calls[p].pc = "idle" =>
                  /\ ENABLED KV_list_scan(p)
                  /\ \A i \in ItemIds : ENABLED KV_get(p, i) /\ ENABLED KV_delete(p, i))
    /\ \A p \in Callers : (calls[p].pc # "idle") ~> (calls[p].pc = "idle")

\* Every caller is inside an operation at once: one has had its get or
\* delete executed and awaits the reply, the other is between the GET and the
\* SET of an update.
C32_Witness ==
    /\ \A p \in Callers : calls[p].pc # "idle"
    /\ \E p \in Callers : calls[p].pc = "update_set"
    /\ \E p \in Callers :
          calls[p].pc = "return" /\ calls[p].response.op \in {"get", "delete"}

\* C33: in every reachable state each record is stored under the key of its
\* own id.  In memory items[k].id = k for every key k; in the key-value store
\* the record under item:<n> deserializes to an Item with id n, the Item that
\* create or update last returned for n.
C33_RecordsUnderOwnId ==
    /\ \A k \in DOMAIN items : items[k].id = k
    /\ \A n \in ItemIds :
          KeyOf(n) \in DOMAIN redis =>
              LET item == model_validate_json(redis[KeyOf(n)])
              IN /\ item # ValidationError
                 /\ item.id = n
                 /\ n \in DOMAIN returned
                 /\ item = returned[n]

\* C36: once lifespan has exited, every key-value client made in the process,
\* by connect_to_redis at startup or by get_repository for a request, has
\* been closed; the client whose startup ping failed too.
C36_EveryClientClosedAtExit ==
    app.pc = "exit" => \A c \in 1..app.from_url : app.closed[c] >= 1

\* C34: init_db on a database that already has the items table leaves every
\* row and the AUTOINCREMENT sequence as they were, so a later startup loses
\* no data and does not reset the ids.
C34_InitDbIdempotent ==
    [][(app.pc = "init_db" /\ app.schema /\ app'.pc = "yield") =>
          /\ rows' = rows
          /\ sqlite_sequence' = sqlite_sequence
          /\ app'.schema]_vars

\* The application was started a second time on a table that held a row and
\* had given two ids; init_db ran again and both are still there.
C34_Witness ==
    /\ storage_type = "sqlite"
    /\ app.restarts = 1
    /\ app.pc = "yield"
    /\ DOMAIN rows = {2}
    /\ sqlite_sequence = 2
    /\ last.op = "delete"

\* C37: get_repository never hands out a key-value instance on a client that
\* has been closed: after close_redis_connection has run, a later call does
\* not get the closed client.
C37_NoClosedClientHandedOut ==
    [][\A p \in Callers :
          (calls[p].pc = "idle" /\ calls'[p].pc = "handler"
              /\ calls'[p].repository.kind = "redis") =>
                app'.closed[calls'[p].repository.redis_client] = 0]_vars

====
